---- MODULE Spec2Model ----
(***************************************************************************)
(* ArchiFusion: the CAD job path.                                          *)
(*                                                                         *)
(* POST /api/cad-generator creates a job in the in-memory job store and    *)
(* starts processCADJob, which awaits generateCadModel (llm-service):      *)
(* the multimodal processor's fast strategies first, the three-stage agent *)
(* pipeline second, a static fallback model last.  GET polls the store.    *)
(*                                                                         *)
(* One action is one turn of the Node event loop: a request handler, the   *)
(* settling of an external call, or a timer callback, each run together    *)
(* with every promise continuation it triggers up to the next suspension.  *)
(* Time is in milliseconds and only moves to the next pending timer.       *)
(***************************************************************************)
EXTENDS Integers, FiniteSets, Sequences, TLC

\* ------------------------------------------------------------- bounds
\* number of job ids the store can issue in one behaviour
MaxJobs == 1
\* largest room count a prompt gives in front of a room word
MaxCount == 2
\* longest room list of a requirement set handed to the synthesizer
MaxRooms == 4
\* number of jobs submitted to the store in a behaviour of StoreSpec
MaxStoreJobs == 3
\* number of usage POST requests of one user in a behaviour of UsageSpec
MaxUsageRequests == 4
\* largest number of room families one prompt mentions
MaxFamilies == 2

\* ------------------------------------------------- program constants
SketchTimeout == 10000
PhotoTimeout == 12000
AgentTimeout == 15000
StageTimeout == 5000
Retention == 3600000

JobIds == 1..MaxJobs

\* A request body field is modelled by its JavaScript truthiness: FALSE for a
\* missing field, null or "", TRUE for a non-empty string.
Bodies == [prompt : BOOLEAN, sketchData : BOOLEAN,
           speechData : BOOLEAN, photoData : BOOLEAN]

VARIABLES
    now,            \* Date.now()
    openAIClient,   \* MultimodalProcessor.openAIClient is set
    visionClient,   \* MultimodalProcessor.visionClient is set
    jobs,           \* the job store: a map from issued ids to job records
    issued,         \* how many job ids have been generated
    call,           \* per job: the generateCadModel call and what it waits on
    last,           \* the request the latest step handled, if any, and its response
    polled,         \* per job: progress returned by its previous and its latest poll
    synth,          \* a run of the heuristic text path: its input and its model
    usage,          \* the user's row and the usage requests in flight
    retry,          \* a call of retryWithBackoff: its loop and what it did
    hook,           \* the useCADJob hook: its state, refs and requests in flight
    widget,         \* a mounted CADJobStatus component and its polls in flight
    resilient       \* a call of ResilientProcessor.processWithRetry

vars == <<now, openAIClient, visionClient, jobs, issued, call, last, polled, synth,
          usage, retry, hook, widget, resilient>>

\* the browser-side state, which no server step touches
Client == <<retry, hook, widget, resilient>>

\* ------------------------------------------------------------ values
Undefined == -1          \* a numeric field that is not set

NoResult == [path |-> "none"]

\* what generateFromTextFallback returns (analyzer never yields zero rooms)
TextFallbackResult ==
    [source |-> "heuristic", rooms |-> "some", visualEnhancement |-> FALSE,
     sketchUsed |-> FALSE, photoUsed |-> FALSE, style |-> "model"]

\* what combineInputsWithGPT4V returns for a response whose parsed content
\* has the given rooms ("some", "none")
GptResult(rooms) ==
    [source |-> "gpt", rooms |-> rooms, visualEnhancement |-> FALSE,
     sketchUsed |-> FALSE, photoUsed |-> FALSE, style |-> "model"]

\* the static model of generateFallbackCadModel
StaticFallback == [path |-> "fallback", source |-> "static", rooms |-> "some"]

\* ------------------------------------------------ one generateCadModel call
\* pc     where generateCadModel is suspended: "text" (awaiting the text
\*        promise), "visuals" (awaiting Promise.allSettled), "retry" (the
\*        catch branch's second processTextOnly), "vonly" (visual-only
\*        strategy awaiting allSettled), "vtext" (visual-only awaiting the
\*        inference call), "agent" (awaiting processDesignRequest), "done"
\* sketch, photo   the Promise.race of a visual analysis against its timer
\* wf     executeAgentWorkflow: the stage it awaits, or how it settled
\* agRace the Promise.race of the workflow against the 15 s timer
\* ops    external calls in flight; timers: pending setTimeout callbacks
\* out    what generateCadModel returned
\* procRes what processMultimodalInput settled with
\* startAt, textAt, procAt   when the call started, when the text result and
\*        when the processor's result became available
\* entry  the entry point the invocation serves: "job" (generateCadModel),
\*        "multimodal" (POST /api/multimodal-processor), "stream" (the
\*        streaming endpoint)
\* dispatched   how many strategies the selector started
\* runs   how often each agent's execute was called
\* agAt   when processDesignRequest was called
\* events, closed   the streaming endpoint's controller: what was enqueued
\*        and whether controller.close() ran
NotSettled == [source |-> "none"]

InitCall ==
    [pc |-> "none", strat |-> "none", textRes |-> NoResult,
     sketch |-> "none", sketchVal |-> "null",
     photo |-> "none", photoVal |-> "null",
     wf |-> "none", agRace |-> "none", design |-> "none",
     ops |-> {}, timers |-> {}, out |-> NoResult, procRes |-> NotSettled,
     startAt |-> now, textAt |-> Undefined, procAt |-> Undefined,
     entry |-> "none", dispatched |-> 0,
     runs |-> [interp |-> 0, design |-> 0, render |-> 0],
     agAt |-> Undefined,
     events |-> <<>>, closed |-> FALSE]

Timer(kind, delay) == [kind |-> kind, due |-> now + delay]

\* what analyzeSketch (azure-service) may resolve with
SketchValues == {"falsy", "norooms", "emptyrooms", "rooms", "badrooms"}
\* what processPhoto resolves with: its architecturalFeatures.style
PhotoValues == {"unknownstyle", "styled"}
\* a visual result as seen by `sketchResult || photoResult`
VisualTruthy(v) == v \notin {"null", "falsy"}

\* mutant: speech does not count as text
Strategy_speechIgnored(inputs) ==
    LET hasText == inputs.text
        hasVisuals == inputs.sketch \/ inputs.photo
    IN  IF hasText /\ hasVisuals THEN "parallel"
        ELSE IF hasText /\ ~hasVisuals THEN "textonly"
        ELSE IF ~hasText /\ hasVisuals THEN "visualonly"
        ELSE "invalid"

\* processInputsOptimized: the strategy for the inputs' truthiness
Strategy(inputs) ==
    LET hasText == inputs.text \/ inputs.speech
        hasVisuals == inputs.sketch \/ inputs.photo
    IN  IF hasText /\ hasVisuals THEN "parallel"
        ELSE IF hasText /\ ~hasVisuals THEN "textonly"
        ELSE IF ~hasText /\ hasVisuals THEN "visualonly"
        ELSE "invalid"

\* determineSuggestedStyle dereferences inputs.photoAnalysis whenever
\* photoAnalysis?.architecturalFeatures?.style !== "unknown", which is also
\* the case when photoAnalysis is null: it then throws a TypeError
DetermineSuggestedStyleThrows(photoAnalysis) == photoAnalysis = "null"

\* combineInputsWithGPT4V once chat.completions.create settled with o
\* ("reject", or the rooms of the parsed content): a result, or "throw"
CombineInputsWithGPT4V(o, photoAnalysis) ==
    IF o = "reject" THEN [source |-> "throw"]
    ELSE IF DetermineSuggestedStyleThrows(photoAnalysis) THEN [source |-> "throw"]
    ELSE GptResult(o)

\* generateFallbackModel: three rooms, used when no OpenAI client is set
FallbackModelResult ==
    [source |-> "fallback_model", rooms |-> "some", visualEnhancement |-> FALSE,
     sketchUsed |-> FALSE, photoUsed |-> FALSE, style |-> "model"]

\* mutant: generateCadModel lets the rejection through
GenerateFallbackCadModel_rethrows(c) ==
    [c EXCEPT !.pc = "done", !.out = [path |-> "rejected"]]

\* generateCadModel's catch: generateFallbackCadModel
GenerateFallbackCadModel(c) == [c EXCEPT !.pc = "done", !.out = StaticFallback]

\* the stage of executeAgentWorkflow that awaits agent k, and its timer
StageOf(k) == CASE k = "interp" -> "s1" [] k = "design" -> "s2" [] k = "render" -> "s3"
StageTimer(k) ==
    CASE k = "interp" -> "stage1" [] k = "design" -> "stage2" [] k = "render" -> "stage3"

\* executeAgentWorkflow calls agent k's execute and races it against a timer
StartStage(c, k) ==
    [c EXCEPT !.wf = StageOf(k), !.ops = @ \cup {k},
              !.runs[k] = @ + 1,
              !.timers = @ \cup {Timer(StageTimer(k), StageTimeout)}]

\* processDesignRequest: executeAgentWorkflow starts stage 1 and its timer,
\* then the whole workflow is raced against the agent timer
ProcessDesignRequest(c) ==
    LET c1 == StartStage(c, "interp")
    IN  [c1 EXCEPT !.pc = "agent", !.agRace = "pending", !.agAt = now,
                   !.timers = @ \cup {Timer("agent", AgentTimeout)}]

\* the multimodal endpoint's catch: status 500
ErrorResponse == [path |-> "error", code |-> 500]

\* the streaming endpoint's catch and finally: the error event, then close
StreamFail(c) ==
    [c EXCEPT !.pc = "done", !.out = [path |-> "stream_error"],
              !.events = Append(@, "error"), !.closed = TRUE]

\* the streaming endpoint after the agents' result: the last progress event,
\* the completed event, then finally's close
StreamComplete(c, model) ==
    [c EXCEPT !.pc = "done", !.out = [path |-> "stream_completed", model |-> model],
              !.events = @ \o <<"processing90", "completed">>, !.closed = TRUE]

\* what the caller of processDesignRequest does when it rejected:
\* generateCadModel falls back, the endpoints report the error
AgentsRejected(c) ==
    CASE c.entry = "job" -> GenerateFallbackCadModel(c)
      [] c.entry = "multimodal" -> [c EXCEPT !.pc = "done", !.out = ErrorResponse]
      [] c.entry = "stream" -> StreamFail(c)

\* what the caller of processDesignRequest does with its result
AgentsFulfilled(c, design) ==
    LET model == [source |-> "agent", rooms |-> design]
    IN  CASE c.entry = "job" ->
               [c EXCEPT !.pc = "done",
                         !.out = [path |-> "agent_orchestrator", model |-> model]]
          [] c.entry = "multimodal" ->
               [c EXCEPT !.pc = "done",
                         !.out = [path |-> "agent_fallback", code |-> 200,
                                  model |-> model]]
          [] c.entry = "stream" -> StreamComplete(c, model)

\* The caller of processMultimodalInput once it settled with r.
\* generateCadModel returns a model with rooms; anything else (no rooms, a
\* rejection) goes to the agents.  The multimodal endpoint answers 500 to a
\* rejection, and also to a model with rooms, because
\* `this.generateCodeFromModel` is called on a module-level function and
\* throws a TypeError; a model without rooms goes to the agents.  The
\* streaming endpoint reports a rejection and otherwise always goes on to the
\* agents.
AfterProcessor(c, r) ==
    LET c1 == [c EXCEPT !.procAt = now, !.procRes = r]
    IN  CASE c.entry = "job" ->
               IF r.source # "throw" /\ r.rooms = "some"
               THEN [c1 EXCEPT !.pc = "done",
                               !.out = [path |-> "optimized_multimodal", model |-> r]]
               ELSE ProcessDesignRequest(c1)
          [] c.entry = "multimodal" ->
               IF r.source = "throw" \/ r.rooms = "some"
               THEN [c1 EXCEPT !.pc = "done", !.out = ErrorResponse]
               ELSE ProcessDesignRequest(c1)
          [] c.entry = "stream" ->
               IF r.source = "throw" THEN StreamFail(c1)
               ELSE ProcessDesignRequest(
                        [c1 EXCEPT !.events = Append(@, "processing60")])

\* enhanceWithVisualData: the sketch's rooms replace the model's rooms whenever
\* sketchData.rooms is truthy (an empty array is), the photo's style overrides
\* unless "unknown"
EnhanceThrows(sk) == sk = "badrooms"
EnhanceWithVisualData(t, sk, ph) ==
    [t EXCEPT !.rooms = IF sk = "rooms" THEN "some"
                        ELSE IF sk = "emptyrooms" THEN "none" ELSE @,
              !.source = IF sk \in {"rooms", "emptyrooms"} THEN "sketch" ELSE @,
              !.style = IF ph = "styled" THEN "photo" ELSE @,
              !.visualEnhancement = TRUE,
              !.sketchUsed = VisualTruthy(sk),
              !.photoUsed = VisualTruthy(ph)]

\* processTextOnly, up to its first suspension
StartTextOnly(c, pc) ==
    IF ~openAIClient THEN [c EXCEPT !.textRes = TextFallbackResult, !.textAt = now]
    ELSE [c EXCEPT !.pc = pc, !.ops = @ \cup {"text"}]

\* processTextOnly once the inference call settled with o: every throw of
\* combineInputsWithGPT4V is caught and replaced by the heuristic model
ProcessTextOnly(o) ==
    LET r == CombineInputsWithGPT4V(o, "null")
    IN  IF r.source = "throw" THEN TextFallbackResult ELSE r

\* mutant: the text result is enhanced whether or not a visual result exists
AfterVisuals_alwaysEnhances(c) ==
    LET sk == IF c.sketch = "fulfilled" THEN c.sketchVal ELSE "null"
        ph == IF c.photo = "fulfilled" THEN c.photoVal ELSE "null"
    IN  AfterProcessor(c, EnhanceWithVisualData(c.textRes, sk, ph))

\* processTextWithVisualsParallel after Promise.allSettled(visualPromises)
AfterVisuals(c) ==
    LET sk == IF c.sketch = "fulfilled" THEN c.sketchVal ELSE "null"
        ph == IF c.photo = "fulfilled" THEN c.photoVal ELSE "null"
    IN  IF VisualTruthy(sk) \/ VisualTruthy(ph)
        THEN IF EnhanceThrows(sk)
             THEN LET c1 == StartTextOnly(c, "retry")
                  IN  IF c1.pc = "retry" THEN c1 ELSE AfterProcessor(c1, c1.textRes)
             ELSE AfterProcessor(c, EnhanceWithVisualData(c.textRes, sk, ph))
        ELSE AfterProcessor(c, c.textRes)

VisualsSettled(c) == c.sketch # "pending" /\ c.photo # "pending"

\* the continuation of `await textProcessingPromise` / of processTextOnly
AfterText(c, r) ==
    LET c1 == [c EXCEPT !.textRes = r, !.textAt = now]
    IN  IF c.strat = "textonly" \/ c.pc = "retry" THEN AfterProcessor(c1, r)
        ELSE IF VisualsSettled(c1) THEN AfterVisuals(c1)
        ELSE [c1 EXCEPT !.pc = "visuals"]

\* mutant: the sketch race is given the photo's deadline
StartVisuals_sketchUsesPhotoTimeout(c, inputs) ==
    LET c1 == IF inputs.sketch
              THEN [c EXCEPT !.sketch = "pending", !.ops = @ \cup {"sketch"},
                             !.timers = @ \cup {Timer("sketch", PhotoTimeout)}]
              ELSE c
    IN  IF ~inputs.photo THEN c1
        ELSE IF visionClient
             THEN [c1 EXCEPT !.photo = "pending", !.ops = @ \cup {"photo"},
                             !.timers = @ \cup {Timer("photo", PhotoTimeout)}]
             ELSE [c1 EXCEPT !.photo = "fulfilled", !.photoVal = "unknownstyle",
                             !.timers = @ \cup {Timer("photo", PhotoTimeout)}]

\* processSketchOptimized / processPhotoOptimized: the races are created
\* for the inputs that are present; a missing input is Promise.resolve(null).
\* Without a vision client processPhoto resolves with no external call.
StartVisuals(c, inputs) ==
    LET c1 == IF inputs.sketch
              THEN [c EXCEPT !.sketch = "pending", !.ops = @ \cup {"sketch"},
                             !.timers = @ \cup {Timer("sketch", SketchTimeout)}]
              ELSE c
    IN  IF ~inputs.photo THEN c1
        ELSE IF visionClient
             THEN [c1 EXCEPT !.photo = "pending", !.ops = @ \cup {"photo"},
                             !.timers = @ \cup {Timer("photo", PhotoTimeout)}]
             ELSE [c1 EXCEPT !.photo = "fulfilled", !.photoVal = "unknownstyle",
                             !.timers = @ \cup {Timer("photo", PhotoTimeout)}]

\* processVisualsOnly after Promise.allSettled: it throws when no visual
\* result is truthy, else hands the generated prompt to combineInputsWithGPT4V
AfterVisualsOnly(c) ==
    LET sk == IF c.sketch = "fulfilled" THEN c.sketchVal ELSE "null"
        ph == IF c.photo = "fulfilled" THEN c.photoVal ELSE "null"
    IN  IF ~VisualTruthy(sk) /\ ~VisualTruthy(ph)
        THEN AfterProcessor(c, [source |-> "throw"])
        ELSE IF ~openAIClient THEN AfterProcessor(c, FallbackModelResult)
        ELSE [c EXCEPT !.pc = "vtext", !.ops = @ \cup {"text"}]

\* processInputsOptimized up to its first suspension
ProcessInputsOptimized(c, inputs) ==
    LET s == Strategy(inputs)
        c0 == [c EXCEPT !.strat = s,
                        !.dispatched = IF s = "invalid" THEN @ ELSE @ + 1]
    IN  CASE s = "textonly" ->
               LET c1 == StartTextOnly(c0, "text")
               IN  IF c1.pc = "text" THEN c1 ELSE AfterText(c1, c1.textRes)
          [] s = "parallel" ->
               LET c1 == StartTextOnly(c0, "text")
                   c2 == StartVisuals(c1, inputs)
               IN  IF c2.pc = "text" THEN c2 ELSE AfterText(c2, c2.textRes)
          [] s = "visualonly" ->
               LET c1 == StartVisuals(c0, inputs)
               IN  IF VisualsSettled(c1) THEN AfterVisualsOnly(c1)
                   ELSE [c1 EXCEPT !.pc = "vonly"]
          [] OTHER -> AfterProcessor(c0, [source |-> "throw"])

\* generateCadModel up to its first suspension: the processor when any of
\* sketch, speech or photo is given, the agents directly otherwise
GenerateCadModel(prompt, sketchData, speechData, photoData) ==
    IF sketchData \/ speechData \/ photoData
    THEN ProcessInputsOptimized([InitCall EXCEPT !.entry = "job"],
             [text |-> prompt, sketch |-> sketchData,
              speech |-> speechData, photo |-> photoData])
    ELSE ProcessDesignRequest([InitCall EXCEPT !.entry = "job",
                                               !.strat = "agentonly"])

\* ----------------------------------------------------------- job store
NoPoll == -2             \* no poll of the job has been answered yet
NoRequest == [op |-> "none"]

\* mutant: one record is shared by every stored job
Put_sharedRecord(store, j, rec) ==
    [k \in (DOMAIN store) \cup {j} |-> rec]

\* jobs.set(jobId, rec)
Put(store, j, rec) ==
    [k \in (DOMAIN store) \cup {j} |-> IF k = j THEN rec ELSE store[k]]

\* mutant: the clean-up marks the record instead of removing it
Delete_marksExpired(store, j) ==
    [store EXCEPT ![j] = [@ EXCEPT !.status = "expired", !.result = NoResult]]

\* jobs.delete(jobId)
Delete(store, j) == [k \in (DOMAIN store) \ {j} |-> store[k]]

\* jobs.get(jobId)?.startTime
StartTimeOf(store, j) == IF j \in DOMAIN store THEN store[j].startTime ELSE Undefined

JobRec(status, progress, result, error, startTime) ==
    [status |-> status, progress |-> progress, result |-> result,
     error |-> error, startTime |-> startTime]

\* POST: the record a new job starts with
Queued == JobRec("queued", 0, NoResult, "none", now)

\* mutant: the analyzing_inputs record is written before the processing one
ProcessCADJobSteps_reordered(store, j) ==
    LET s1 == Put(store, j, JobRec("analyzing_inputs", 40, NoResult, "none",
                      IF StartTimeOf(store, j) # Undefined
                      THEN StartTimeOf(store, j) ELSE now))
        s2 == Put(s1, j, JobRec("processing", 20, NoResult, "none",
                      StartTimeOf(s1, j)))
        s3 == Put(s2, j, JobRec("generating_model", 70, NoResult, "none",
                      StartTimeOf(s2, j)))
    IN  <<s1, s2, s3>>

\* processCADJob before `await generateCadModel(...)`: the store after each
\* of its three jobs.set calls
ProcessCADJobSteps(store, j) ==
    LET s1 == Put(store, j, JobRec("processing", 20, NoResult, "none",
                      IF StartTimeOf(store, j) # Undefined
                      THEN StartTimeOf(store, j) ELSE now))
        s2 == Put(s1, j, JobRec("analyzing_inputs", 40, NoResult, "none",
                      StartTimeOf(s1, j)))
        s3 == Put(s2, j, JobRec("generating_model", 70, NoResult, "none",
                      StartTimeOf(s2, j)))
    IN  <<s1, s2, s3>>

\* mutant: processCADJob yields before its first jobs.set
ProcessCADJobStart_yieldsFirst(store, j) == store

\* processCADJob before `await generateCadModel(...)`: three jobs.set calls
ProcessCADJobStart(store, j) == ProcessCADJobSteps(store, j)[3]

\* POST's jobs.set followed by processCADJob's synchronous part: the records
\* job j goes through before the handler returns
WrittenOnSubmit(store, j) ==
    LET s0 == Put(store, j, Queued)
        steps == ProcessCADJobSteps(s0, j)
    IN  <<s0[j], steps[1][j], steps[2][j], steps[3][j]>>

\* mutant: the completed record is written without its progress
ProcessCADJobSettle_noProgress(store, j, out) ==
    Put(store, j, JobRec("completed", Undefined, out, "none", StartTimeOf(store, j)))

\* processCADJob after generateCadModel settled with out: the completed
\* record, or the catch branch's failed record (which sets no progress)
ProcessCADJobSettle(store, j, out) ==
    IF out.path = "rejected"
    THEN Put(store, j, JobRec("failed", Undefined, NoResult, "message",
                              StartTimeOf(store, j)))
    ELSE Put(store, j, JobRec("completed", 100, out, "none",
                              StartTimeOf(store, j)))

\* mutant: no clean-up is scheduled
CleanupTimers_none(out) == {}

\* processCADJob schedules the clean-up only after a successful completion
CleanupTimers(out) ==
    IF out.path = "rejected" THEN {} ELSE {Timer("cleanup", Retention)}

\* The tail of every event of job j's task: c is the call after the event's
\* continuations ran; when generateCadModel has just settled, processCADJob
\* resumes in the same turn.
Resume(j, c) ==
    IF c.entry = "job" /\ c.pc = "done" /\ call[j].pc # "done"
    THEN /\ jobs' = ProcessCADJobSettle(jobs, j, c.out)
         /\ call' = [call EXCEPT ![j] =
                        [c EXCEPT !.timers = @ \cup CleanupTimers(c.out)]]
    ELSE /\ jobs' = jobs
         /\ call' = [call EXCEPT ![j] = c]

\* mutant: the validation is skipped
NoInput_skipped(body) == FALSE

\* POST's validation: no input field is truthy
NoInput(body) ==
    /\ ~body.prompt /\ ~body.sketchData
    /\ ~body.speechData /\ ~body.photoData

Env == <<openAIClient, visionClient>>

\* POST /api/cad-generator with a body that does not parse: req.json() throws
PostMalformed ==
    /\ last' = [op |-> "POST", malformed |-> TRUE, code |-> 500, jobId |-> 0,
                before |-> jobs]
    /\ UNCHANGED <<now, Env, Client, synth, usage, jobs, issued, call, polled>>

\* POST /api/cad-generator.  With no input: 400 and nothing is stored.
\* Otherwise the job is stored as queued, processCADJob runs up to
\* generateCadModel's first suspension (to the end when nothing suspends)
\* and the response carries the new id.
Post(body) ==
    /\ IF NoInput(body)
       THEN /\ last' = [op |-> "POST", malformed |-> FALSE, body |-> body,
                        code |-> 400, jobId |-> 0, before |-> jobs]
            /\ UNCHANGED <<jobs, issued, call>>
       ELSE /\ issued < MaxJobs
            /\ LET j == issued + 1
                   \* textPrompt = data.prompt || "Generate a CAD model ..."
                   c == GenerateCadModel(TRUE, body.sketchData,
                            body.speechData, body.photoData)
                   started == ProcessCADJobStart(Put(jobs, j, Queued), j)
               IN  /\ issued' = j
                   /\ IF c.pc = "done"
                      THEN /\ jobs' = ProcessCADJobSettle(started, j, c.out)
                           /\ call' = [call EXCEPT ![j] =
                                  [c EXCEPT !.timers = @ \cup CleanupTimers(c.out)]]
                      ELSE /\ jobs' = started
                           /\ call' = [call EXCEPT ![j] = c]
                   /\ last' = [op |-> "POST", malformed |-> FALSE, body |-> body,
                               code |-> 200, jobId |-> j, before |-> jobs,
                               status |-> "queued",
                               written |-> WrittenOnSubmit(jobs, j)]
    /\ UNCHANGED <<now, Env, Client, synth, usage, polled>>

\* GET /api/cad-generator without a jobId parameter
GetNoId ==
    /\ last' = [op |-> "GET", code |-> 400, jobId |-> 0]
    /\ UNCHANGED <<now, Env, Client, synth, usage, jobs, issued, call, polled>>

\* Math.round(elapsed / 1000)
RoundSeconds(ms) == (ms + 500) \div 1000

\* mutant: a poll of an id that is not stored stores a queued record for it
Get_storesOnMiss(j) ==
    /\ IF j \in DOMAIN jobs
       THEN /\ last' = [op |-> "GET", code |-> 200, jobId |-> j, job |-> jobs[j],
                        elapsed |-> RoundSeconds(now - jobs[j].startTime)]
            /\ polled' = [polled EXCEPT ![j] =
                             [prev |-> @.last, last |-> jobs[j].progress]]
            /\ UNCHANGED jobs
       ELSE /\ last' = [op |-> "GET", code |-> 404, jobId |-> j]
            /\ jobs' = Put(jobs, j, Queued)
            /\ UNCHANGED polled
    /\ UNCHANGED <<now, Env, Client, synth, usage, issued, call>>

\* GET /api/cad-generator?jobId=j
Get(j) ==
    /\ IF j \in DOMAIN jobs
       THEN /\ last' = [op |-> "GET", code |-> 200, jobId |-> j, job |-> jobs[j],
                        elapsed |-> RoundSeconds(now - jobs[j].startTime)]
            /\ polled' = [polled EXCEPT ![j] =
                             [prev |-> @.last, last |-> jobs[j].progress]]
       ELSE /\ last' = [op |-> "GET", code |-> 404, jobId |-> j]
            /\ UNCHANGED polled
    /\ UNCHANGED <<now, Env, Client, synth, usage, jobs, issued, call>>

\* ------------------------------------------- the processor's endpoints
\* the body of a request to the multimodal or the streaming endpoint, by the
\* truthiness of its fields
EndpointBodies == [text : BOOLEAN, sketch : BOOLEAN,
                   speech : BOOLEAN, photo : BOOLEAN]

\* the multimodal endpoint's validation: no input field is truthy
NoEndpointInput(body) ==
    ~body.text /\ ~body.sketch /\ ~body.speech /\ ~body.photo

\* POST /api/multimodal-processor.  With no input: 400.  Otherwise the
\* processor runs up to its first suspension; the response is sent when the
\* handler's last continuation has run and is call[slot].out.
PostMultimodal(body) ==
    /\ IF NoEndpointInput(body)
       THEN /\ last' = [op |-> "MULTIMODAL", body |-> body, code |-> 400, slot |-> 0]
            /\ UNCHANGED <<issued, call>>
       ELSE /\ issued < MaxJobs
            /\ LET j == issued + 1
                   c == ProcessInputsOptimized(
                            [InitCall EXCEPT !.entry = "multimodal"], body)
               IN  /\ issued' = j
                   /\ call' = [call EXCEPT ![j] = c]
                   /\ last' = [op |-> "MULTIMODAL", body |-> body, code |-> 200,
                               slot |-> j]
    /\ UNCHANGED <<now, Env, Client, synth, usage, jobs, polled>>

\* POST of the streaming endpoint: the body is not validated; the stream's
\* start callback enqueues three events and calls the processor
PostStream(body) ==
    /\ issued < MaxJobs
    /\ LET j == issued + 1
           c == ProcessInputsOptimized(
                    [InitCall EXCEPT !.entry = "stream",
                         !.events = <<"started", "processing10", "processing30">>],
                    body)
       IN  /\ issued' = j
           /\ call' = [call EXCEPT ![j] = c]
           /\ last' = [op |-> "STREAM", body |-> body, code |-> 200, slot |-> j]
    /\ UNCHANGED <<now, Env, Client, synth, usage, jobs, polled>>

\* ------------------------------------------------ events of a job's task
\* the continuation that waits on Promise.allSettled of the visual races
ResumeVisuals(c) ==
    IF ~VisualsSettled(c) THEN c
    ELSE IF c.pc = "visuals" THEN AfterVisuals(c)
    ELSE IF c.pc = "vonly" THEN AfterVisualsOnly(c)
    ELSE c

\* mutant: the promise that settles last decides the race
SettleRace_lastWins(state, val, newState, newVal) == <<newState, newVal>>

\* Promise.race settles with the first of its promises to settle; a later
\* settling of the other one finds the race settled and is dropped
SettleRace(state, val, newState, newVal) ==
    IF state = "pending" THEN <<newState, newVal>> ELSE <<state, val>>

\* chat.completions.create settles: it rejects, or resolves with content
\* whose parsed model has rooms or has none
TextSettles(j, o) ==
    /\ "text" \in call[j].ops
    /\ LET c == [call[j] EXCEPT !.ops = @ \ {"text"}]
       IN  IF c.pc = "vtext"
           THEN LET ph == IF c.photo = "fulfilled" THEN c.photoVal ELSE "null"
                IN  Resume(j, AfterProcessor(c, CombineInputsWithGPT4V(o, ph)))
           ELSE Resume(j, AfterText(c, ProcessTextOnly(o)))
    /\ last' = NoRequest
    /\ UNCHANGED <<now, Env, Client, synth, usage, issued, polled>>

\* analyzeSketch settles: it rejects or resolves with one of SketchValues
SketchSettles(j, o) ==
    /\ "sketch" \in call[j].ops
    /\ LET r == SettleRace(call[j].sketch, call[j].sketchVal,
                           IF o = "reject" THEN "rejected" ELSE "fulfilled",
                           IF o = "reject" THEN "error" ELSE o)
           c == [call[j] EXCEPT !.ops = @ \ {"sketch"},
                                !.sketch = r[1], !.sketchVal = r[2]]
       IN  Resume(j, IF call[j].sketch = "pending" THEN ResumeVisuals(c) ELSE c)
    /\ last' = NoRequest
    /\ UNCHANGED <<now, Env, Client, synth, usage, issued, polled>>

\* visionClient.analyzeImageInStream settles; processPhoto turns a rejection
\* into its own and a response into an analysis with a style
PhotoSettles(j, o) ==
    /\ "photo" \in call[j].ops
    /\ LET r == SettleRace(call[j].photo, call[j].photoVal,
                           IF o = "reject" THEN "rejected" ELSE "fulfilled",
                           IF o = "reject" THEN "error" ELSE o)
           c == [call[j] EXCEPT !.ops = @ \ {"photo"},
                                !.photo = r[1], !.photoVal = r[2]]
       IN  Resume(j, IF call[j].photo = "pending" THEN ResumeVisuals(c) ELSE c)
    /\ last' = NoRequest
    /\ UNCHANGED <<now, Env, Client, synth, usage, issued, polled>>

\* the agent a stage of the workflow awaits
AgentOf(wf) == CASE wf = "s1" -> "interp" [] wf = "s2" -> "design" [] wf = "s3" -> "render"

\* mutant: a stage that failed is run a second time
WorkflowSettled_retries(c, wf, design) ==
    LET c1 == [c EXCEPT !.wf = wf, !.design = design]
    IN  IF c.agRace # "pending" THEN c1
        ELSE IF wf = "resolved"
        THEN AgentsFulfilled([c1 EXCEPT !.agRace = "fulfilled"], design)
        ELSE IF c.wf \in {"s1", "s2", "s3"} /\ c.runs[AgentOf(c.wf)] < 2
        THEN StartStage(c, AgentOf(c.wf))
        ELSE AgentsRejected([c1 EXCEPT !.agRace = "rejected"])

\* mutant: a workflow that resolves after the race was lost still succeeds
WorkflowSettled_lateSuccess(c, wf, design) ==
    LET c1 == [c EXCEPT !.wf = wf, !.design = design]
    IN  IF wf = "resolved"
        THEN AgentsFulfilled([c1 EXCEPT !.agRace = "fulfilled"], design)
        ELSE IF c.agRace # "pending" THEN c1
        ELSE AgentsRejected([c1 EXCEPT !.agRace = "rejected"])

\* processDesignRequest's race once executeAgentWorkflow settled as wf, and
\* its caller's continuation when that settles the race
WorkflowSettled(c, wf, design) ==
    LET c1 == [c EXCEPT !.wf = wf, !.design = design]
    IN  IF c.agRace # "pending" THEN c1
        ELSE IF wf = "resolved"
        THEN AgentsFulfilled([c1 EXCEPT !.agRace = "fulfilled"], design)
        ELSE AgentsRejected([c1 EXCEPT !.agRace = "rejected"])

\* how an agent's execute settled, as the awaiting stage sees it: a
\* rejection, a value with .error set, or a result
OutcomeClass(o) == IF o \in {"reject", "error"} THEN o ELSE "result"

\* mutant: the interpreter's result is not checked for .error
StageSettles_interpUnchecked(j, k, o) ==
    /\ k \in call[j].ops
    /\ LET c == [call[j] EXCEPT !.ops = @ \ {k}]
       IN  IF c.wf # StageOf(k) THEN Resume(j, c)
           ELSE IF o = "reject" \/ (o = "error" /\ k = "design")
           THEN Resume(j, WorkflowSettled(c, "rejected", c.design))
           ELSE CASE k = "interp" -> Resume(j, StartStage(c, "design"))
                  [] k = "design" ->
                       Resume(j, StartStage([c EXCEPT !.design = o], "render"))
                  [] k = "render" ->
                       Resume(j, WorkflowSettled(c, "resolved", c.design))
    /\ last' = IF call[j].wf = StageOf(k)
               THEN [op |-> "STAGE", slot |-> j, agent |-> k,
                     outcome |-> OutcomeClass(o)]
               ELSE NoRequest
    /\ UNCHANGED <<now, Env, Client, synth, usage, issued, polled>>

\* an agent's execute settles: it rejects ("reject"), returns an error value
\* ("error") or a result ("some"/"none": the rooms of a design).  Only the
\* interpreter's and the designer's results are checked for .error.
StageSettles(j, k, o) ==
    /\ k \in call[j].ops
    /\ LET c == [call[j] EXCEPT !.ops = @ \ {k}]
       IN  IF c.wf # StageOf(k) THEN Resume(j, c)
           ELSE IF o = "reject" \/ (o = "error" /\ k # "render")
           THEN Resume(j, WorkflowSettled(c, "rejected", c.design))
           ELSE CASE k = "interp" -> Resume(j, StartStage(c, "design"))
                  [] k = "design" ->
                       Resume(j, StartStage([c EXCEPT !.design = o], "render"))
                  [] k = "render" ->
                       Resume(j, WorkflowSettled(c, "resolved", c.design))
    /\ last' = IF call[j].wf = StageOf(k)
               THEN [op |-> "STAGE", slot |-> j, agent |-> k,
                     outcome |-> OutcomeClass(o)]
               ELSE NoRequest
    /\ UNCHANGED <<now, Env, Client, synth, usage, issued, polled>>

\* a setTimeout callback runs at its due time
TimerFires(j, t) ==
    /\ t \in call[j].timers
    /\ t.due <= now
    /\ LET c == [call[j] EXCEPT !.timers = @ \ {t}]
       IN  CASE t.kind = "sketch" ->
                  LET r == SettleRace(c.sketch, c.sketchVal, "rejected", "timeout")
                  IN  Resume(j, IF c.sketch = "pending"
                                THEN ResumeVisuals([c EXCEPT !.sketch = r[1],
                                                             !.sketchVal = r[2]])
                                ELSE c)
             [] t.kind = "photo" ->
                  LET r == SettleRace(c.photo, c.photoVal, "rejected", "timeout")
                  IN  Resume(j, IF c.photo = "pending"
                                THEN ResumeVisuals([c EXCEPT !.photo = r[1],
                                                             !.photoVal = r[2]])
                                ELSE c)
             [] t.kind \in {"stage1", "stage2", "stage3"} ->
                  IF c.wf = (CASE t.kind = "stage1" -> "s1"
                               [] t.kind = "stage2" -> "s2"
                               [] t.kind = "stage3" -> "s3")
                  THEN Resume(j, WorkflowSettled(c, "rejected", c.design))
                  ELSE Resume(j, c)
             [] t.kind = "agent" ->
                  IF c.agRace = "pending"
                  THEN Resume(j, AgentsRejected([c EXCEPT !.agRace = "rejected"]))
                  ELSE Resume(j, c)
             [] t.kind = "cleanup" ->
                  /\ jobs' = Delete(jobs, j)
                  /\ call' = [call EXCEPT ![j] = c]
    /\ last' = NoRequest
    /\ UNCHANGED <<now, Env, Client, synth, usage, issued, polled>>

\* ------------------------------------------------------------------ time
AllTimers == UNION {call[j].timers : j \in JobIds}

\* time passes up to the next pending timer; due timers run first
AdvanceTime ==
    /\ AllTimers # {}
    /\ \A t \in AllTimers : t.due > now
    /\ now' = CHOOSE d \in {t.due : t \in AllTimers} :
                  \A t \in AllTimers : d <= t.due
    /\ last' = NoRequest
    /\ UNCHANGED <<Env, Client, synth, usage, jobs, issued, call, polled>>

\* ------------------------------ heuristic text analyzer and synthesizer
\* Lengths are in tenths of a unit, window widths in hundredths.
MaxRowWidth == 150       \* `currentX + width > 15`
Spacing == 5             \* 0.5 between rooms and between rows
RoomHeight == 30

Sizes == {"small", "medium", "large"}

\* The ten room patterns of the analyzer, in the order of roomPatterns.
Families ==
    << "bedroom", "bathroom", "kitchen", "living", "dining",
       "office", "garage", "basement", "attic", "utility" >>

FamilySet == {Families[i] : i \in 1..Len(Families)}

\* the patterns that capture the digits in front of the room word
CountingFamilies == {"bedroom", "bathroom"}

\* How a text mentions a family: not at all, without a number in front of
\* the room word, or with the number N in front of it.
NotMentioned == -2
Unnumbered == -1
Mentions == {NotMentioned, Unnumbered} \cup (0..MaxCount)

\* the building keyword of a text: office/commercial/business,
\* hotel/restaurant/retail, or neither
Keywords == {"commercial", "hospitality", "none"}

\* A prompt, by what the analyzer's patterns and includes() tests find in it:
\* how its first match of each family is written, its building keyword and
\* its size adjective.
Prompts ==
    UNION {{[mention |-> [f \in FamilySet |-> IF f \in S THEN m[f] ELSE NotMentioned],
             keyword |-> k, size |-> sz] :
               m \in [S -> Mentions \ {NotMentioned}], k \in Keywords, sz \in Sizes} :
           S \in {T \in SUBSET FamilySet : Cardinality(T) <= MaxFamilies}}

\* a room name: the type, numbered when the count is above one
Name(base, n) == [base |-> base, n |-> n]

\* analyzeTextRequirements: the rooms.push loop of one pattern
RoomsOfType(type, count) ==
    [i \in 1..count |-> [type |-> type,
                         name |-> Name(type, IF count > 1 THEN i ELSE 0)]]

\* analyzeTextRequirements: the count of one pattern.  matches[0].match(/\d+/)
\* finds digits only where the pattern has the (\d+)? group.
ExtractCount(family, mention) ==
    IF mention = NotMentioned THEN 0
    ELSE IF family \in CountingFamilies /\ mention >= 0 THEN mention
    ELSE 1

\* analyzeTextRequirements: Object.entries(roomPatterns).forEach from family i
RECURSIVE ExtractRooms(_, _)
ExtractRooms(p, i) ==
    IF i > Len(Families) THEN <<>>
    ELSE RoomsOfType(Families[i], ExtractCount(Families[i], p.mention[Families[i]]))
         \o ExtractRooms(p, i + 1)

\* analyzeTextRequirements
AnalyzeTextRequirements(p) ==
    LET found == ExtractRooms(p, 1)
        buildingType == IF p.keyword = "none" THEN "residential" ELSE p.keyword
        defaults ==
            IF buildingType = "commercial"
            THEN << [type |-> "office", name |-> Name("main_office", 0)],
                    [type |-> "meeting", name |-> Name("conference_room", 0)],
                    [type |-> "reception", name |-> Name("lobby", 0)] >>
            ELSE << [type |-> "living", name |-> Name("living_room", 0)],
                    [type |-> "kitchen", name |-> Name("kitchen", 0)],
                    [type |-> "bedroom", name |-> Name("bedroom", 0)],
                    [type |-> "bathroom", name |-> Name("bathroom", 0)] >>
    IN  [buildingType |-> buildingType,
         rooms |-> IF Len(found) = 0 THEN defaults ELSE found,
         size |-> p.size]

\* baseRoomSizes, with the default for a type that is not in the table
BaseRoomSizes(type) ==
    CASE type = "living" -> [width |-> 50, length |-> 60]
      [] type = "bedroom" -> [width |-> 35, length |-> 40]
      [] type = "bathroom" -> [width |-> 25, length |-> 30]
      [] type = "kitchen" -> [width |-> 30, length |-> 40]
      [] type = "dining" -> [width |-> 35, length |-> 40]
      [] type = "office" -> [width |-> 40, length |-> 50]
      [] type = "garage" -> [width |-> 60, length |-> 70]
      [] type = "utility" -> [width |-> 20, length |-> 25]
      [] type = "reception" -> [width |-> 60, length |-> 80]
      [] type = "meeting" -> [width |-> 40, length |-> 60]
      [] OTHER -> [width |-> 40, length |-> 40]

\* Math.round(base * multiplier * 10) / 10 with multipliers 0.7, 1.0, 1.4 and
\* 1.0 for an unknown size.  In IEEE doubles 3.5 * 0.7 * 10 is
\* 24.499999999999996 and rounds to 24, while 2.5 * 0.7 * 10 is 17.5 and
\* rounds to 18.
Scale(base, size) ==
    CASE size = "small" -> IF base = 35 THEN 24 ELSE (7 * base + 5) \div 10
      [] size = "large" -> (14 * base + 5) \div 10
      [] OTHER -> base

StartCursor == [x |-> 0, z |-> 0, maxRowHeight |-> 0]

\* mutant: a new row starts at the z of the row before
PlaceRoom_noRowAdvance(cur, roomReq, size, wrapTie) ==
    LET base == BaseRoomSizes(roomReq.type)
        width == Scale(base.width, size)
        length == Scale(base.length, size)
        wrap == \/ cur.x + width > MaxRowWidth
                \/ cur.x + width = MaxRowWidth /\ wrapTie
        x == IF wrap THEN 0 ELSE cur.x
        rowHeight == IF wrap THEN 0 ELSE cur.maxRowHeight
    IN  [room |-> [name |-> roomReq.name, width |-> width, length |-> length,
                   height |-> RoomHeight, x |-> x, y |-> 0, z |-> cur.z,
                   connected_to |-> <<>>],
         cur |-> [x |-> x + width + Spacing, z |-> cur.z,
                  maxRowHeight |-> IF length > rowHeight THEN length ELSE rowHeight]]

\* mutant: the row is left only once the cursor itself is past the limit
PlaceRoom_wrapLate(cur, roomReq, size, wrapTie) ==
    LET base == BaseRoomSizes(roomReq.type)
        width == Scale(base.width, size)
        length == Scale(base.length, size)
        wrap == \/ cur.x > MaxRowWidth
                \/ cur.x = MaxRowWidth /\ wrapTie
        x == IF wrap THEN 0 ELSE cur.x
        z == IF wrap THEN cur.z + cur.maxRowHeight + Spacing ELSE cur.z
        rowHeight == IF wrap THEN 0 ELSE cur.maxRowHeight
    IN  [room |-> [name |-> roomReq.name, width |-> width, length |-> length,
                   height |-> RoomHeight, x |-> x, y |-> 0, z |-> z,
                   connected_to |-> <<>>],
         cur |-> [x |-> x + width + Spacing, z |-> z,
                  maxRowHeight |-> IF length > rowHeight THEN length ELSE rowHeight]]

\* generateModelFromAnalysis: one iteration of the forEach.  currentX is a
\* sum of doubles, so when currentX + width is 15 in exact arithmetic the
\* comparison with 15 can go either way (13.200000000000001 + 1.8 > 15):
\* wrapTie is the outcome in that case.
PlaceRoom(cur, roomReq, size, wrapTie) ==
    LET base == BaseRoomSizes(roomReq.type)
        width == Scale(base.width, size)
        length == Scale(base.length, size)
        wrap == \/ cur.x + width > MaxRowWidth
                \/ cur.x + width = MaxRowWidth /\ wrapTie
        x == IF wrap THEN 0 ELSE cur.x
        z == IF wrap THEN cur.z + cur.maxRowHeight + Spacing ELSE cur.z
        rowHeight == IF wrap THEN 0 ELSE cur.maxRowHeight
    IN  [room |-> [name |-> roomReq.name, width |-> width, length |-> length,
                   height |-> RoomHeight, x |-> x, y |-> 0, z |-> z,
                   connected_to |-> <<>>],
         cur |-> [x |-> x + width + Spacing, z |-> z,
                  maxRowHeight |-> IF length > rowHeight THEN length ELSE rowHeight]]

\* generateModelFromAnalysis: the rooms of requirements i.. placed from cur
RECURSIVE PlaceRooms(_, _, _, _, _)
PlaceRooms(reqs, size, i, cur, ties) ==
    IF i > Len(reqs) THEN <<>>
    ELSE LET p == PlaceRoom(cur, reqs[i], size, i \in ties)
         IN  <<p.room>> \o PlaceRooms(reqs, size, i + 1, p.cur, ties)

\* mutant: only the later room of a pair records the connection
Connect_oneWay(placed) ==
    [i \in 1..Len(placed) |->
        [placed[i] EXCEPT !.connected_to =
            IF i > 1 THEN <<placed[i - 1].name>> ELSE <<>>]]

\* generateModelFromAnalysis: the connected_to lists once the loop is over.
\* Room i pushes its predecessor's name when it is created, and its successor
\* pushes its own name onto room i in the next iteration.
Connect(placed) ==
    [i \in 1..Len(placed) |->
        [placed[i] EXCEPT !.connected_to =
            (IF i > 1 THEN <<placed[i - 1].name>> ELSE <<>>)
            \o (IF i < Len(placed) THEN <<placed[i + 1].name>> ELSE <<>>)]]

\* generateModelFromAnalysis: rooms, a door between each room and the one
\* before it, a south window for every room but bathrooms and utility rooms
GenerateModelFromAnalysis(analysis, ties) ==
    LET rooms == Connect(PlaceRooms(analysis.rooms, analysis.size, 1,
                                    StartCursor, ties))
        windowed == {i \in 1..Len(rooms) :
                        analysis.rooms[i].type \notin {"bathroom", "utility"}}
    IN  [rooms |-> rooms,
         doors |-> [i \in 1..(Len(rooms) - 1) |->
                       [from |-> rooms[i].name, to |-> rooms[i + 1].name,
                        width |-> 9, height |-> 21]],
         windows |-> {[room |-> rooms[i].name, wall |-> "south",
                       width |-> IF 4 * rooms[i].width < 200
                                 THEN 4 * rooms[i].width ELSE 200,
                       height |-> 12] : i \in windowed}]

\* generateQuickModel: the prompt is not used
GenerateQuickModel(prompt) ==
    [rooms |-> << [name |-> Name("living_room", 0), width |-> 60, length |-> 80,
                   height |-> 30, x |-> 0, y |-> 0, z |-> 0,
                   connected_to |-> <<Name("kitchen", 0)>>],
                  [name |-> Name("kitchen", 0), width |-> 40, length |-> 60,
                   height |-> 30, x |-> 60, y |-> 0, z |-> 0,
                   connected_to |-> <<Name("living_room", 0)>>] >>,
     doors |-> << [from |-> Name("living_room", 0), to |-> Name("kitchen", 0),
                   width |-> 10, height |-> 21] >>,
     windows |-> {[room |-> Name("living_room", 0), wall |-> "south",
                   width |-> 200, height |-> 15]}]

\* generateFallbackModel: the model returned when no OpenAI client is set
FallbackModelData ==
    [rooms |-> << [name |-> Name("living room", 0), type |-> "living",
                   dimensions |-> [width |-> 60, length |-> 80, height |-> 30],
                   position |-> [x |-> 0, y |-> 0, z |-> 0]],
                  [name |-> Name("kitchen", 0), type |-> "kitchen",
                   dimensions |-> [width |-> 40, length |-> 50, height |-> 30],
                   position |-> [x |-> 60, y |-> 0, z |-> 0]],
                  [name |-> Name("bedroom", 0), type |-> "bedroom",
                   dimensions |-> [width |-> 40, length |-> 50, height |-> 30],
                   position |-> [x |-> 0, y |-> 0, z |-> 80]] >>,
     doors |-> << [from |-> Name("living room", 0), to |-> Name("kitchen", 0),
                   width |-> 10, height |-> 21],
                  [from |-> Name("living room", 0), to |-> Name("bedroom", 0),
                   width |-> 9, height |-> 21] >>,
     windows |-> {[room |-> Name("living room", 0), wall |-> "north",
                   width |-> 150, height |-> 12],
                  [room |-> Name("bedroom", 0), wall |-> "east",
                   width |-> 120, height |-> 12]}]

\* generateFallbackCadModel: the model of the job path's catch
FallbackCadModelData ==
    [rooms |-> << [name |-> Name("living", 0), width |-> 50, length |-> 70,
                   height |-> 30, x |-> 0, y |-> 0, z |-> 0,
                   connected_to |-> <<Name("kitchen", 0), Name("hallway", 0)>>],
                  [name |-> Name("kitchen", 0), width |-> 40, length |-> 40,
                   height |-> 30, x |-> 50, y |-> 0, z |-> 0,
                   connected_to |-> <<Name("living", 0)>>] >>,
     doors |-> << [from |-> Name("living", 0), to |-> Name("kitchen", 0),
                   width |-> 12, height |-> 21] >>,
     windows |-> {[room |-> Name("living", 0), wall |-> "south",
                   width |-> 200, height |-> 15]}]

\* What analyzeSketch can hand to enhanceWithVisualData as sketchData.rooms:
\* no room, a room without a name, a room with a name of its own, and rooms
\* named as the analyzer names them.
NoName == Name("", 0)

SketchRoomLists ==
    { <<>>,
      << [name |-> NoName, x |-> 0, z |-> 0] >>,
      << [name |-> Name("hall", 0), x |-> 0, z |-> 0] >>,
      << [name |-> Name("bedroom", 1), x |-> 0, z |-> 0],
         [name |-> Name("bedroom", 2), x |-> 40, z |-> 0] >>,
      << [name |-> Name("living_room", 0), x |-> 0, z |-> 0],
         [name |-> Name("kitchen", 0), x |-> 55, z |-> 0],
         [name |-> Name("bedroom", 0), x |-> 90, z |-> 0],
         [name |-> Name("bathroom", 0), x |-> 0, z |-> 65] >> }

\* The visual results enhanceWithVisualData is called with: a sketch analysis
\* with a rooms list, or one without (also the case of a photo analysis
\* alone, where sketchData is null).
SketchData ==
    {[hasRooms |-> FALSE, rooms |-> <<>>]}
    \cup {[hasRooms |-> TRUE, rooms |-> l] : l \in SketchRoomLists}

\* enhanceWithVisualData: under `sketchData && sketchData.rooms` (an empty
\* array passes the test) the rooms become the sketch's rooms, a room without
\* a name is called room_<x>_<z>; doors and windows stay those of the text
\* model
EnhancedModelData(modelData, sketchData) ==
    IF sketchData.hasRooms
    THEN [modelData EXCEPT !.rooms =
            [i \in 1..Len(sketchData.rooms) |->
                [sketchData.rooms[i] EXCEPT !.name =
                    IF @ = NoName
                    THEN Name("room_x_z", 1000 * sketchData.rooms[i].x
                                               + sketchData.rooms[i].z)
                    ELSE @]]]
    ELSE modelData

\* a requirement set handed to the synthesizer: any list of rooms of any
\* type, in any order, and any size class
RoomTypes == {"living", "bedroom", "bathroom", "garage", "reception", "unlisted"}
SizeClasses == Sizes \cup {"unlisted"}

RECURSIVE RoomLists(_)
RoomLists(n) ==
    IF n = 0 THEN {<<>>}
    ELSE RoomLists(n - 1)
         \cup {Append(l, t) : l \in {m \in RoomLists(n - 1) : Len(m) = n - 1},
                              t \in RoomTypes}

RequirementSets ==
    {[buildingType |-> "residential",
      rooms |-> [i \in 1..Len(l) |-> [type |-> l[i], name |-> Name(l[i], i)]],
      size |-> sz] : l \in RoomLists(MaxRooms), sz \in SizeClasses}

NoSynth == [input |-> "none"]
NoUsage == [generationsUsed |-> 0]
NoRetry == [pc |-> "none"]
NoHook == [pc |-> "none"]
NoWidget == [pc |-> "none"]
NoResilient == [pc |-> "none"]

\* no browser-side component is in use
ClientIdle ==
    /\ retry = NoRetry
    /\ hook = NoHook
    /\ widget = NoWidget
    /\ resilient = NoResilient
NoModel == [rooms |-> <<>>, doors |-> <<>>, windows |-> {}]

\* generateFromTextFallback(prompt): the analyzer, then the synthesizer
GenerateFromTextFallback ==
    /\ synth.input = "prompt" /\ ~synth.done
    /\ \E ties \in SUBSET (1..Len(AnalyzeTextRequirements(synth.prompt).rooms)) :
           LET analysis == AnalyzeTextRequirements(synth.prompt)
           IN  synth' = [synth EXCEPT !.analysis = analysis, !.done = TRUE,
                             !.modelData = GenerateModelFromAnalysis(analysis, ties)]
    /\ last' = NoRequest
    /\ UNCHANGED <<now, Env, Client, usage, jobs, issued, call, polled>>

\* generateModelFromAnalysis(analysis) on a requirement set
Synthesize ==
    /\ synth.input = "analysis" /\ ~synth.done
    /\ \E ties \in SUBSET (1..Len(synth.analysis.rooms)) :
           synth' = [synth EXCEPT !.done = TRUE,
                         !.modelData = GenerateModelFromAnalysis(synth.analysis, ties)]
    /\ last' = NoRequest
    /\ UNCHANGED <<now, Env, Client, usage, jobs, issued, call, polled>>

\* processTextWithVisualsParallel once the text model is made and a visual
\* analysis resolved: enhanceWithVisualData(textResult, sketchData, photoData)
EnhanceWithSketch(sketchData) ==
    /\ synth.input = "prompt" /\ synth.done
    /\ last' = [op |-> "ENHANCED", code |-> 200, sketchData |-> sketchData,
                modelData |-> EnhancedModelData(synth.modelData, sketchData)]
    /\ UNCHANGED <<now, Env, Client, usage, jobs, issued, call, polled>>
    /\ UNCHANGED synth

\* a path that returns one of the two static models
ReturnStaticModel(modelData) ==
    /\ synth.input = "prompt"
    /\ last' = [op |-> "STATIC", code |-> 200, modelData |-> modelData]
    /\ UNCHANGED <<now, Env, Client, usage, jobs, issued, call, polled>>
    /\ UNCHANGED synth

\* POST /api/quick-generate with the prompt: no await but req.json()
PostQuick ==
    /\ synth.input = "prompt"
    /\ last' = [op |-> "QUICK", code |-> 200,
                modelData |-> GenerateQuickModel(synth.prompt)]
    /\ UNCHANGED <<now, Env, Client, usage, jobs, issued, call, polled>>
    /\ UNCHANGED synth

\* ------------------------------------------------------- specifications
Init ==
    /\ now = 0
    /\ openAIClient \in BOOLEAN
    /\ visionClient \in BOOLEAN
    /\ jobs = <<>>
    /\ issued = 0
    /\ call = [j \in JobIds |-> InitCall]
    /\ last = NoRequest
    /\ polled = [j \in JobIds |-> [prev |-> NoPoll, last |-> NoPoll]]
    /\ synth = NoSynth
    /\ usage = NoUsage
    /\ ClientIdle

Next ==
    \/ PostMalformed
    \/ \E body \in Bodies : Post(body)
    \/ GetNoId
    \/ \E j \in JobIds : Get(j)
    \/ \E j \in JobIds, o \in {"reject", "some", "none"} : TextSettles(j, o)
    \/ \E j \in JobIds, o \in SketchValues \cup {"reject"} : SketchSettles(j, o)
    \/ \E j \in JobIds, o \in PhotoValues \cup {"reject"} : PhotoSettles(j, o)
    \/ \E j \in JobIds, k \in {"interp", "design", "render"},
          o \in {"reject", "error", "some", "none"} : StageSettles(j, k, o)
    \/ \E j \in JobIds : \E t \in call[j].timers : TimerFires(j, t)
    \/ AdvanceTime

Spec == Init /\ [][Next]_vars

\* Timers run when due and time moves on; nothing obliges an external
\* service to answer or a client to send a request.
Fairness ==
    /\ WF_vars(AdvanceTime)
    /\ WF_vars(\E j \in JobIds : \E t \in call[j].timers : TimerFires(j, t))

FairSpec == Spec /\ Fairness

\* The processor's two direct endpoints, one request at a time per slot.
EndpointNext ==
    \/ \E body \in EndpointBodies : PostMultimodal(body)
    \/ \E body \in EndpointBodies : PostStream(body)
    \/ \E j \in JobIds, o \in {"reject", "some", "none"} : TextSettles(j, o)
    \/ \E j \in JobIds, o \in SketchValues \cup {"reject"} : SketchSettles(j, o)
    \/ \E j \in JobIds, o \in PhotoValues \cup {"reject"} : PhotoSettles(j, o)
    \/ \E j \in JobIds, k \in {"interp", "design", "render"},
          o \in {"reject", "error", "some", "none"} : StageSettles(j, k, o)
    \/ \E j \in JobIds : \E t \in call[j].timers : TimerFires(j, t)
    \/ AdvanceTime

EndpointSpec == Init /\ [][EndpointNext]_vars

EndpointFairSpec == EndpointSpec /\ Fairness

\* The job store under several jobs.  generateCadModel is one await of
\* processCADJob that settles with one of StoreOutcomes; time is left out, so
\* the clean-up of a completed job can run at any later step.  Job ids are
\* taken as distinct (Date.now() with nine random base-36 digits).
StoreIds == 1..MaxStoreJobs

StoreOutcomes ==
    { StaticFallback,
      [path |-> "agent_orchestrator", model |-> [source |-> "agent", rooms |-> "some"]],
      [path |-> "optimized_multimodal", model |-> TextFallbackResult] }

StoreInit ==
    /\ now = 0
    /\ openAIClient = FALSE
    /\ visionClient = FALSE
    /\ jobs = <<>>
    /\ issued = 0
    /\ call = [j \in StoreIds |-> [InitCall EXCEPT !.entry = "job"]]
    /\ last = NoRequest
    /\ polled = [j \in JobIds |-> [prev |-> NoPoll, last |-> NoPoll]]
    /\ synth = NoSynth
    /\ usage = NoUsage
    /\ ClientIdle

\* POST /api/cad-generator with an input: the queued record, then
\* processCADJob up to `await generateCadModel(...)`
StorePost ==
    /\ issued < MaxStoreJobs
    /\ LET j == issued + 1
       IN  /\ issued' = j
           /\ jobs' = ProcessCADJobStart(Put(jobs, j, Queued), j)
           /\ call' = [call EXCEPT ![j].pc = "awaiting"]
           /\ last' = [op |-> "POST", malformed |-> FALSE, code |-> 200,
                       jobId |-> j, before |-> jobs]
    /\ UNCHANGED <<now, Env, Client, synth, usage, polled>>

\* processCADJob of job j after generateCadModel settled with out
StoreSettle(j, out) ==
    /\ call[j].pc = "awaiting"
    /\ jobs' = ProcessCADJobSettle(jobs, j, out)
    /\ call' = [call EXCEPT ![j].pc = "done", ![j].out = out]
    /\ last' = NoRequest
    /\ UNCHANGED <<now, Env, Client, synth, usage, issued, polled>>

\* the clean-up callback of job j
StoreCleanup(j) ==
    /\ call[j].pc = "done"
    /\ jobs' = Delete(jobs, j)
    /\ call' = [call EXCEPT ![j].pc = "cleaned"]
    /\ last' = NoRequest
    /\ UNCHANGED <<now, Env, Client, synth, usage, issued, polled>>

\* GET /api/cad-generator?jobId=j
StoreGet(j) ==
    /\ IF j \in DOMAIN jobs
       THEN last' = [op |-> "GET", code |-> 200, jobId |-> j, job |-> jobs[j],
                    elapsed |-> RoundSeconds(now - jobs[j].startTime)]
       ELSE last' = [op |-> "GET", code |-> 404, jobId |-> j]
    /\ UNCHANGED <<now, Env, Client, synth, usage, jobs, issued, call, polled>>

StoreNext ==
    \/ StorePost
    \/ \E j \in StoreIds, out \in StoreOutcomes : StoreSettle(j, out)
    \/ \E j \in StoreIds : StoreCleanup(j)
    \/ \E j \in StoreIds : StoreGet(j)

StoreSpec == StoreInit /\ [][StoreNext]_vars

\* --------------------------------------------------- usage tracking
FREE_GENERATION_LIMIT == 2

UsageRequests == 1..MaxUsageRequests

\* the user's row, with or without a subscription in its paid period, and
\* the POST requests of that user, none of them started
UsageInit ==
    /\ now = 0
    /\ openAIClient = FALSE
    /\ visionClient = FALSE
    /\ jobs = <<>>
    /\ issued = 0
    /\ call = [j \in JobIds |-> InitCall]
    /\ last = NoRequest
    /\ polled = [j \in JobIds |-> [prev |-> NoPoll, last |-> NoPoll]]
    /\ synth = NoSynth
    /\ \E isPro \in BOOLEAN :
           usage = [generationsUsed |-> 0, isPro |-> isPro,
                    requests |-> [r \in UsageRequests |->
                        [pc |-> "none", seen |-> 0, code |-> 0]]]
    /\ ClientIdle

\* POST (usage) of a signed-in user, up to `await prisma.user.findUnique`
UsagePost(r) ==
    /\ usage.requests[r].pc = "none"
    /\ usage' = [usage EXCEPT !.requests[r].pc = "find"]
    /\ last' = [op |-> "USAGE", request |-> r]
    /\ UNCHANGED <<now, Env, Client, synth, jobs, issued, call, polled>>

\* findUnique resolves with the row as it is now; the handler checks the
\* limit on that copy, answers 403 or calls prisma.user.update
UsageFound(r) ==
    /\ usage.requests[r].pc = "find"
    /\ IF ~usage.isPro /\ usage.generationsUsed >= FREE_GENERATION_LIMIT
       THEN usage' = [usage EXCEPT !.requests[r].pc = "done",
                                   !.requests[r].seen = usage.generationsUsed,
                                   !.requests[r].code = 403]
       ELSE usage' = [usage EXCEPT !.requests[r].pc = "update",
                                   !.requests[r].seen = usage.generationsUsed]
    /\ last' = NoRequest
    /\ UNCHANGED <<now, Env, Client, synth, jobs, issued, call, polled>>

\* the update's `increment: 1` is applied to the row as it is now, and the
\* handler answers 200 with the updated row
UsageUpdated(r) ==
    /\ usage.requests[r].pc = "update"
    /\ usage' = [usage EXCEPT !.generationsUsed = @ + 1,
                              !.requests[r].pc = "done",
                              !.requests[r].code = 200]
    /\ last' = NoRequest
    /\ UNCHANGED <<now, Env, Client, synth, jobs, issued, call, polled>>

UsageNext ==
    \/ \E r \in UsageRequests : UsagePost(r)
    \/ \E r \in UsageRequests : UsageFound(r)
    \/ \E r \in UsageRequests : UsageUpdated(r)

UsageSpec == UsageInit /\ [][UsageNext]_vars

\* the server-side state, which no browser-side step touches
Server == <<now, openAIClient, visionClient, jobs, issued, call, polled, synth, usage>>

\* no request was made and nothing is stored
ServerIdle ==
    /\ now = 0
    /\ openAIClient = FALSE
    /\ visionClient = FALSE
    /\ jobs = <<>>
    /\ issued = 0
    /\ call = [j \in JobIds |-> InitCall]
    /\ last = NoRequest
    /\ polled = [j \in JobIds |-> [prev |-> NoPoll, last |-> NoPoll]]
    /\ synth = NoSynth
    /\ usage = NoUsage

\* ------------------------------------------------------ retryWithBackoff
MaxRetriesArg == 3       \* the largest maxRetries a call is made with

\* maxRetries of a call (its default is 3; -1 makes the loop body never run)
RetryCounts == (-1)..MaxRetriesArg
\* baseDelay of a call, in milliseconds (its default is 1000)
BaseDelays == {0, 250, 500, 1000}

RECURSIVE Pow2(_)
Pow2(k) == IF k = 0 THEN 1 ELSE 2 * Pow2(k - 1)

\* mutant: the delay grows linearly
BackoffDelay_linear(baseDelay, attempt) == baseDelay * (attempt + 1)

\* baseDelay * Math.pow(2, attempt)
BackoffDelay(baseDelay, attempt) == baseDelay * Pow2(attempt)

\* the value or the error a call of fn settled with is told by the index of
\* the call
NoOutcome == [kind |-> "none", of |-> 0]

\* a call of retryWithBackoff(fn, maxRetries, baseDelay) that has not started
RetryInit ==
    /\ ServerIdle
    /\ hook = NoHook
    /\ widget = NoWidget
    /\ resilient = NoResilient
    /\ \E m \in RetryCounts, d \in BaseDelays :
           retry = [pc |-> "start", maxRetries |-> m, baseDelay |-> d,
                    attempt |-> 0, calls |-> 0, settled |-> <<>>,
                    waits |-> <<>>, lastError |-> NoOutcome,
                    outcome |-> NoOutcome]

\* the head of the for loop with the counter at attempt: fn is called when
\* attempt <= maxRetries, otherwise the loop is left and lastError is thrown
LoopHead(r, attempt) ==
    IF attempt <= r.maxRetries
    THEN [r EXCEPT !.attempt = attempt, !.calls = @ + 1, !.pc = "fn"]
    ELSE [r EXCEPT !.attempt = attempt, !.pc = "threw",
                   !.outcome = [kind |-> "error", of |-> r.lastError.of]]

\* retryWithBackoff is called: it runs to its first await
RetryStart ==
    /\ retry.pc = "start"
    /\ retry' = LoopHead(retry, 0)
    /\ UNCHANGED <<Server, last, hook, widget, resilient>>

\* fn() resolves: `return await fn()`
FnResolves ==
    /\ retry.pc = "fn"
    /\ retry' = [retry EXCEPT !.pc = "returned",
                              !.settled = Append(@, "resolved"),
                              !.outcome = [kind |-> "value", of |-> retry.calls]]
    /\ UNCHANGED <<Server, last, hook, widget, resilient>>

\* fn() rejects: the catch block throws after the last attempt, otherwise it
\* starts the delay
FnRejects ==
    /\ retry.pc = "fn"
    /\ LET e == [kind |-> "error", of |-> retry.calls]
           r == [retry EXCEPT !.settled = Append(@, "rejected"), !.lastError = e]
       IN  retry' = IF retry.attempt = retry.maxRetries
                    THEN [r EXCEPT !.pc = "threw", !.outcome = e]
                    ELSE [r EXCEPT !.pc = "delay",
                              !.waits = Append(@, BackoffDelay(retry.baseDelay,
                                                               retry.attempt))]
    /\ UNCHANGED <<Server, last, hook, widget, resilient>>

\* addNetworkDelay's timer fires: attempt++ and the loop head again
DelayElapsed ==
    /\ retry.pc = "delay"
    /\ retry' = LoopHead(retry, retry.attempt + 1)
    /\ UNCHANGED <<Server, last, hook, widget, resilient>>

RetryNext ==
    \/ RetryStart
    \/ FnResolves
    \/ FnRejects
    \/ DelayElapsed

RetrySpec == RetryInit /\ [][RetryNext]_vars

\* ------------------------------------------------------ the useCADJob hook
MaxStarts == 2           \* how often startJob is called
MaxPolls == 2            \* how many polls of the hook are in flight at once

\* what a poll's response can be: the stored status of the job, or a
\* response that is not ok (the id is unknown) or a network error
PollStatuses == {"generating_model", "completed", "failed"}
PollOutcomes == PollStatuses \cup {"error"}

NoJobId == 0
IdleJob == [status |-> "idle", jobId |-> NoJobId]

\* the hook after its first render: useState({status: 'idle'}), useState(false)
HookInit ==
    /\ ServerIdle
    /\ retry = NoRetry
    /\ widget = NoWidget
    /\ resilient = NoResilient
    /\ hook = [pc |-> "mounted", job |-> IdleJob, isPolling |-> FALSE,
               interval |-> FALSE, submits |-> {}, polls |-> 0, starts |-> 0,
               stoppedBy |-> "none"]

\* The render after a state change and the polling effect with its
\* dependencies [isPolling, job.jobId]: when one changed, the clean-up of the
\* previous effect clears the interval, and with isPolling and a jobId the
\* effect sends the initial poll and sets the interval.
Render(h, next) ==
    IF <<next.isPolling, next.job.jobId>> = <<h.isPolling, h.job.jobId>>
    THEN next
    ELSE IF next.isPolling /\ next.job.jobId # NoJobId
         THEN [next EXCEPT !.interval = TRUE, !.polls = @ + 1]
         ELSE [next EXCEPT !.interval = FALSE]

\* startJob(data) up to `await fetch(...)`
StartJob ==
    /\ hook.pc = "mounted" /\ hook.starts < MaxStarts
    /\ LET k == hook.starts + 1
       IN  hook' = Render(hook,
                       [hook EXCEPT !.job = [status |-> "queued", jobId |-> NoJobId],
                                    !.starts = k, !.submits = @ \cup {k},
                                    !.stoppedBy = "none"])
    /\ UNCHANGED <<Server, last, retry, widget, resilient>>

\* the response of submission k arrives: with a job id the job is queued
\* under that id and polling is switched on, otherwise the job is failed
StartResponse(k, ok) ==
    /\ hook.pc = "mounted" /\ k \in hook.submits
    /\ LET h == [hook EXCEPT !.submits = @ \ {k}]
           next == IF ok
                   THEN [h EXCEPT !.job = [status |-> "queued", jobId |-> k],
                                  !.isPolling = TRUE]
                   ELSE [h EXCEPT !.job = [status |-> "failed", jobId |-> NoJobId]]
       IN  /\ hook' = Render(hook, next)
           /\ hook'.polls <= MaxPolls
    /\ UNCHANGED <<Server, last, retry, widget, resilient>>

\* the interval fires: pollForStatus sends a poll
IntervalTick ==
    /\ hook.pc = "mounted" /\ hook.interval
    /\ hook.polls < MaxPolls
    /\ hook' = [hook EXCEPT !.polls = @ + 1]
    /\ UNCHANGED <<Server, last, retry, widget, resilient>>

\* pollForStatus after its fetch settled: setJob(prev => ({...prev, ...jobStatus}))
\* and, for a terminal status or an error, setIsPolling(false) and clearInterval
PollForStatus(h, outcome) ==
    IF outcome = "error"
    THEN [h EXCEPT !.job.status = "failed", !.isPolling = FALSE, !.interval = FALSE]
    ELSE IF outcome \in {"completed", "failed"}
    THEN [h EXCEPT !.job.status = outcome, !.isPolling = FALSE, !.interval = FALSE]
    ELSE [h EXCEPT !.job.status = outcome]

\* the response of a poll in flight arrives
PollResponse(outcome) ==
    /\ hook.pc = "mounted" /\ hook.polls > 0
    /\ LET h == [hook EXCEPT !.polls = @ - 1]
       IN  /\ hook' = Render(hook, PollForStatus(h, outcome))
           /\ hook'.polls <= MaxPolls
    /\ UNCHANGED <<Server, last, retry, widget, resilient>>

\* cancelJob(): clearInterval, setIsPolling(false), setJob({status: 'idle'});
\* the requests in flight are not aborted
CancelJob ==
    /\ hook.pc = "mounted"
    /\ hook' = Render(hook, [hook EXCEPT !.interval = FALSE, !.isPolling = FALSE,
                                         !.job = IdleJob, !.stoppedBy = "cancelJob"])
    /\ UNCHANGED <<Server, last, retry, widget, resilient>>

\* resetJob(): the same statements as cancelJob
ResetJob ==
    /\ hook.pc = "mounted"
    /\ hook' = Render(hook, [hook EXCEPT !.interval = FALSE, !.isPolling = FALSE,
                                         !.job = IdleJob, !.stoppedBy = "resetJob"])
    /\ UNCHANGED <<Server, last, retry, widget, resilient>>

HookNext ==
    \/ StartJob
    \/ \E k \in 1..MaxStarts, ok \in BOOLEAN : StartResponse(k, ok)
    \/ IntervalTick
    \/ \E outcome \in PollOutcomes : PollResponse(outcome)
    \/ CancelJob
    \/ ResetJob

HookSpec == HookInit /\ [][HookNext]_vars

\* ------------------------------------------- the CADJobStatus component
MaxWidgetPolls == 3      \* how many polls of the component are in flight at once

PollSlots == 1..MaxWidgetPolls

\* the component after its first render for a jobId, its effect run: the job
\* is shown as queued, the 2-second interval is set, no poll was sent.
\* server is the job's stored status, which a poll reads when it is handled.
WidgetInit ==
    /\ ServerIdle
    /\ retry = NoRetry
    /\ hook = NoHook
    /\ resilient = NoResilient
    /\ widget = [pc |-> "mounted", job |-> "queued", isPolling |-> TRUE,
                 interval |-> TRUE, server |-> "generating_model",
                 polls |-> [p \in PollSlots |-> "free"],
                 completes |-> 0, errors |-> 0]

\* the interval fires: the callback runs up to `await fetch(...)`
WidgetTick(p) ==
    /\ widget.pc = "mounted" /\ widget.interval
    /\ widget.polls[p] = "free"
    /\ widget' = [widget EXCEPT !.polls[p] = "sent"]
    /\ UNCHANGED <<Server, last, retry, hook, resilient>>

\* the job's task writes the terminal record
JobSettles(status) ==
    /\ widget.pc = "mounted" /\ widget.server = "generating_model"
    /\ widget' = [widget EXCEPT !.server = status]
    /\ UNCHANGED <<Server, last, retry, hook, resilient>>

\* the request of poll p is handled: the response carries the stored status,
\* or the request fails (a response that is not ok, a network error)
PollHandled(p, ok) ==
    /\ widget.pc = "mounted" /\ widget.polls[p] = "sent"
    /\ widget' = [widget EXCEPT !.polls[p] = IF ok THEN widget.server ELSE "error"]
    /\ UNCHANGED <<Server, last, retry, hook, resilient>>

\* the response of poll p arrives and the callback continues: setJob, and for
\* completed, failed or an error setIsPolling(false) and the parent's
\* callback; the effect's clean-up clears the interval when isPolling changed
PollArrives(p) ==
    /\ widget.pc = "mounted"
    /\ widget.polls[p] \notin {"free", "sent"}
    /\ LET r == widget.polls[p]
           w == [widget EXCEPT !.polls[p] = "free"]
       IN  widget' =
               CASE r = "completed" ->
                        [w EXCEPT !.job = r, !.isPolling = FALSE, !.interval = FALSE,
                                  !.completes = @ + 1]
                 [] r = "failed" ->
                        [w EXCEPT !.job = r, !.isPolling = FALSE, !.interval = FALSE,
                                  !.errors = @ + 1]
                 [] r = "error" ->
                        [w EXCEPT !.isPolling = FALSE, !.interval = FALSE,
                                  !.errors = @ + 1]
                 [] OTHER -> [w EXCEPT !.job = r]
    /\ UNCHANGED <<Server, last, retry, hook, resilient>>

WidgetNext ==
    \/ \E p \in PollSlots : WidgetTick(p)
    \/ \E status \in {"completed", "failed"} : JobSettles(status)
    \/ \E p \in PollSlots, ok \in BOOLEAN : PollHandled(p, ok)
    \/ \E p \in PollSlots : PollArrives(p)

WidgetSpec == WidgetInit /\ [][WidgetNext]_vars

\* ------------------------------ ResilientProcessor.processWithRetry
\* maxRetries of a call (its default is 2)
ResilientRetryCounts == 0..MaxRetriesArg

\* what one reader.read() of the streaming response delivers: a progress
\* event, the completed event with its result, an error event (its throw is
\* caught by the parse catch around it and has no effect)
StreamEvents == {"progress10", "progress30", "completed", "error"}

\* a call of processWithRetry(data, maxRetries) that has not started, for a
\* data with or without a text
ResilientInit ==
    /\ ServerIdle
    /\ retry = NoRetry
    /\ hook = NoHook
    /\ widget = NoWidget
    /\ \E m \in ResilientRetryCounts, hasText \in BOOLEAN :
           resilient = [pc |-> "start", maxRetries |-> m, hasText |-> hasText,
                        attempt |-> 0, attempts |-> 0, progress |-> 0,
                        streamResult |-> FALSE, chunks |-> 0, fallbacks |-> 0,
                        results |-> 0, errors |-> 0, delivered |-> "none"]

\* the head of the for loop with the counter at attempt: the next attempt
\* starts with processWithStreaming's fetch, or the loop and the call end
AttemptHead(r, attempt) ==
    IF attempt <= r.maxRetries
    THEN [r EXCEPT !.attempt = attempt, !.attempts = @ + 1, !.pc = "stream",
                   !.streamResult = FALSE,
                   !.progress = IF attempt > 0 THEN 5 ELSE @]
    ELSE [r EXCEPT !.attempt = attempt, !.pc = "ended"]

\* processWithRetry is called: it runs to the fetch of the first attempt
ProcessWithRetry ==
    /\ resilient.pc = "start"
    /\ resilient' = AttemptHead(resilient, 0)
    /\ UNCHANGED <<Server, last, retry, hook, widget>>

\* processWithStreaming: reader.read() delivers an event
StreamRead(event) ==
    /\ resilient.pc = "stream"
    /\ resilient' =
           CASE event = "progress10" -> [resilient EXCEPT !.progress = 10]
             [] event = "progress30" -> [resilient EXCEPT !.progress = 30]
             [] event = "completed" -> [resilient EXCEPT !.streamResult = TRUE,
                                                         !.progress = 100]
             [] OTHER -> resilient
    /\ resilient' # resilient
    /\ UNCHANGED <<Server, last, retry, hook, widget>>

\* the catch block of an attempt: after the last attempt processFallback is
\* called, before that the backoff timer is set
AttemptFailed(r) ==
    IF r.attempt = r.maxRetries
    THEN [r EXCEPT !.pc = "fallback", !.fallbacks = @ + 1, !.progress = 50]
    ELSE [r EXCEPT !.pc = "delay"]

\* processWithStreaming returns: reader.read() reports done and the result
\* read so far is returned, or the fetch or a read failed and null is
\* returned.  With a result onResult is called and the call ends, without
\* one processInChunks sends its request.
StreamSettles(done) ==
    /\ resilient.pc = "stream"
    /\ resilient' =
           IF done /\ resilient.streamResult
           THEN [resilient EXCEPT !.pc = "ended", !.results = @ + 1,
                                  !.delivered = "stream"]
           ELSE [resilient EXCEPT !.pc = "chunk", !.chunks = @ + 1,
                                  !.progress = 20, !.streamResult = FALSE]
    /\ UNCHANGED <<Server, last, retry, hook, widget>>

\* processInChunks' request settles: with an ok response onResult is called,
\* otherwise (a response that is not ok, the 20 s abort) it throws
ChunkSettles(ok) ==
    /\ resilient.pc = "chunk"
    /\ resilient' =
           IF ok
           THEN [resilient EXCEPT !.pc = "ended", !.results = @ + 1,
                                  !.progress = 100, !.delivered = "chunk"]
           ELSE AttemptFailed(resilient)
    /\ UNCHANGED <<Server, last, retry, hook, widget>>

\* the backoff timer of 2^attempt seconds fires: attempt++ and the loop head
BackoffElapsed ==
    /\ resilient.pc = "delay"
    /\ resilient' = AttemptHead(resilient, resilient.attempt + 1)
    /\ UNCHANGED <<Server, last, retry, hook, widget>>

\* processFallback's request settles: onResult with an ok response, onError
\* otherwise (a response that is not ok, the 15 s abort); either way the
\* call ends
FallbackSettles(ok) ==
    /\ resilient.pc = "fallback"
    /\ resilient' =
           IF ok
           THEN [resilient EXCEPT !.pc = "ended", !.results = @ + 1,
                                  !.progress = 100, !.delivered = "fallback"]
           ELSE AttemptHead([resilient EXCEPT !.errors = @ + 1,
                                              !.delivered = "error"],
                            resilient.attempt + 1)
    /\ UNCHANGED <<Server, last, retry, hook, widget>>

ResilientNext ==
    \/ ProcessWithRetry
    \/ \E event \in StreamEvents : StreamRead(event)
    \/ \E done \in BOOLEAN : StreamSettles(done)
    \/ \E ok \in BOOLEAN : ChunkSettles(ok)
    \/ BackoffElapsed
    \/ \E ok \in BOOLEAN : FallbackSettles(ok)

ResilientSpec == ResilientInit /\ [][ResilientNext]_vars

\* What the code guarantees to happen: the call starts, the backoff timer
\* fires, and the two requests made with AbortSignal.timeout settle.  The
\* streaming fetch has no deadline.
ResilientFairSpec ==
    /\ ResilientSpec
    /\ WF_vars(ProcessWithRetry)
    /\ WF_vars(BackoffElapsed)
    /\ WF_vars(\E ok \in BOOLEAN : ChunkSettles(ok))
    /\ WF_vars(\E ok \in BOOLEAN : FallbackSettles(ok))

\* The heuristic text path by itself: a prompt for generateFromTextFallback
\* and the quick endpoint, or a requirement set for the synthesizer.
SynthInit ==
    /\ now = 0
    /\ openAIClient = FALSE
    /\ visionClient = FALSE
    /\ jobs = <<>>
    /\ issued = 0
    /\ call = [j \in JobIds |-> InitCall]
    /\ last = NoRequest
    /\ polled = [j \in JobIds |-> [prev |-> NoPoll, last |-> NoPoll]]
    /\ synth \in {[input |-> "prompt", prompt |-> p, done |-> FALSE,
                    analysis |-> AnalyzeTextRequirements(p),
                    modelData |-> NoModel] : p \in Prompts}
               \cup {[input |-> "analysis", done |-> FALSE, analysis |-> a,
                      modelData |-> NoModel] : a \in RequirementSets}
    /\ usage = NoUsage
    /\ ClientIdle

SynthNext ==
    \/ GenerateFromTextFallback
    \/ Synthesize
    \/ PostQuick
    \/ \E sketchData \in SketchData : EnhanceWithSketch(sketchData)
    \/ \E modelData \in {FallbackModelData, FallbackCadModelData} :
           ReturnStaticModel(modelData)

SynthSpec == SynthInit /\ [][SynthNext]_vars

\* ================================================================ claims
Terminal(rec) == rec.status \in {"completed", "failed"}

\* a request body in which no modality is populated
NoModality(body) ==
    \A f \in {"prompt", "sketchData", "speechData", "photoData"} : ~body[f]

IsPost == last.op = "POST" /\ ~last.malformed

\* C1: a submission with no modality populated is answered 400 without a job
\* id, and the job store holds exactly the jobs it held before the request.
C1_EmptySubmissionRejected ==
    (IsPost /\ NoModality(last.body)) =>
        /\ last.code = 400
        /\ last.jobId = 0
        /\ jobs = last.before

\* C1 witness: an empty submission was just refused while a job is stored
C1_Witness ==
    /\ IsPost /\ NoModality(last.body)
    /\ last.code = 400
    /\ DOMAIN jobs # {}

Stored(j) == j \in DOMAIN jobs
TerminalJob(j) == Stored(j) /\ Terminal(jobs[j])

\* C2: every accepted job eventually reaches completed or failed, whatever
\* the external calls do.
C2_AcceptedJobTerminates ==
    \A j \in JobIds : Stored(j) ~> (TerminalJob(j) \/ ~Stored(j))

\* C6: every job that reaches a terminal status is eventually removed from
\* the store for good, and from then on a poll of its id is answered 404.
C6_TerminalJobPurged ==
    \A j \in JobIds :
        TerminalJob(j) ~>
            [](~Stored(j) /\ ((last.op = "GET" /\ last.jobId = j) => last.code = 404))

\* C6 witness: a job that completed has been purged and a poll got 404
C6_Witness ==
    \E j \in JobIds :
        /\ call[j].pc = "done" /\ ~Stored(j)
        /\ last.op = "GET" /\ last.jobId = j /\ last.code = 404

\* C3: no timeout or failure of an external call makes a job failed; when the
\* processor or the agent pipeline rejected, the job is completed and its
\* result is a fallback: the static fallback model after the pipeline
\* rejected, the pipeline's model or the static one after the processor did.
C3_FailuresEndCompleted ==
    \A j \in DOMAIN jobs :
        /\ jobs[j].status # "failed"
        /\ call[j].agRace = "rejected" =>
               /\ jobs[j].status = "completed"
               /\ jobs[j].result = StaticFallback
        /\ (call[j].procRes.source = "throw" /\ call[j].pc = "done") =>
               /\ jobs[j].status = "completed"
               /\ jobs[j].result.path \in {"agent_orchestrator", "fallback"}

\* C3 witness: the agent pipeline rejected and the job completed with the
\* static fallback model
C3_Witness ==
    \E j \in DOMAIN jobs :
        /\ call[j].agRace = "rejected"
        /\ jobs[j].status = "completed"
        /\ jobs[j].result = StaticFallback

\* C4: the progress values successive polls of a job return never decrease,
\* and a poll returns progress 100 only together with status completed.
C4_ProgressMonotone ==
    /\ \A j \in JobIds :
           polled[j].prev # NoPoll => polled[j].last >= polled[j].prev
    /\ (last.op = "GET" /\ last.code = 200 /\ last.job.progress = 100) =>
           last.job.status = "completed"

\* C4 witness: a poll returned 70 and the next one 100
C4_Witness ==
    \E j \in JobIds :
        /\ polled[j].prev = 70 /\ polled[j].last = 100
        /\ last.op = "GET" /\ last.code = 200 /\ last.job.status = "completed"

\* C5: once a job's record is terminal no step changes it while it is stored,
\* and a purged id is never stored again: a job enters a terminal status at
\* most once.
C5_TerminalOnce ==
    [][\A j \in JobIds :
          /\ (TerminalJob(j) /\ j \in DOMAIN jobs') => jobs'[j] = jobs[j]
          /\ (j <= issued /\ ~Stored(j)) => j \notin DOMAIN jobs']_vars

\* C5 witness: the job completed with the fallback when the agent timer
\* fired, and the workflow it no longer waits for has settled since
C5_Witness ==
    \E j \in JobIds :
        /\ TerminalJob(j)
        /\ call[j].agRace = "rejected"
        /\ call[j].wf = "resolved"

\* the visual analyses of a call that lost the race against their timers
TimedOut(c, k) ==
    IF k = "sketch" THEN c.sketch = "rejected" /\ c.sketchVal = "timeout"
    ELSE c.photo = "rejected" /\ c.photoVal = "timeout"

Max(a, b) == IF a >= b THEN a ELSE b

\* the deadline of visual k and the longest deadline among the supplied ones
Deadline(k) == IF k = "sketch" THEN SketchTimeout ELSE PhotoTimeout
LongestDeadline(c) ==
    Max(IF c.sketch # "none" THEN SketchTimeout ELSE 0,
        IF c.photo # "none" THEN PhotoTimeout ELSE 0)

ParallelReturned(c) == c.strat = "parallel" /\ c.procAt # Undefined

\* C7 as claimed: when a visual analysis timed out, the parallel strategy
\* returned as soon as the text path had its result, without waiting for the
\* visual deadline.
C7_ReturnsWithText ==
    \A j \in JobIds : \A k \in {"sketch", "photo"} :
        (ParallelReturned(call[j]) /\ TimedOut(call[j], k)) =>
            call[j].procAt <= call[j].textAt

\* C7 amended: when a visual analysis timed out, the parallel strategy
\* returned no earlier than that visual deadline and no later than the later
\* of the text result and the longest visual deadline.
C7_ReturnsByVisualDeadline ==
    \A j \in JobIds : \A k \in {"sketch", "photo"} :
        (ParallelReturned(call[j]) /\ TimedOut(call[j], k)) =>
            /\ call[j].procAt >= call[j].startAt + Deadline(k)
            /\ call[j].procAt <= Max(call[j].textAt,
                                     call[j].startAt + LongestDeadline(call[j]))

\* C7 witness: the text result was there at the start, the sketch analysis
\* timed out and the strategy returned at the sketch deadline
C7_Witness ==
    \E j \in JobIds :
        /\ ParallelReturned(call[j]) /\ TimedOut(call[j], "sketch")
        /\ call[j].textAt = call[j].startAt
        /\ call[j].procAt = call[j].startAt + SketchTimeout

\* every result the text-only strategy can produce
TextOnlyResults ==
    {TextFallbackResult} \cup {ProcessTextOnly(o) : o \in {"reject", "some", "none"}}

\* every visual analysis that was supplied timed out or failed
AllVisualsFailed(c) ==
    /\ c.sketch \in {"none", "rejected"}
    /\ c.photo \in {"none", "rejected"}
    /\ "rejected" \in {c.sketch, c.photo}

\* C8: when every supplied visual analysis timed out or failed, the parallel
\* strategy returns the text path's result as it is, a result of the
\* text-only strategy with no visual enhancement.
C8_TextResultStands ==
    \A j \in JobIds :
        (ParallelReturned(call[j]) /\ AllVisualsFailed(call[j])) =>
            /\ call[j].procRes = call[j].textRes
            /\ call[j].procRes \in TextOnlyResults
            /\ ~call[j].procRes.visualEnhancement

\* C8 witness: sketch and photo were supplied, one timed out, the other
\* failed, and the strategy returned
C8_Witness ==
    \E j \in JobIds :
        /\ ParallelReturned(call[j])
        /\ TimedOut(call[j], "sketch")
        /\ call[j].photo = "rejected" /\ call[j].photoVal = "error"

Decided(r) == r \in {"fulfilled", "rejected"}

\* the settling of external call k of job j in this step comes after the
\* race it belongs to was decided
Straggler(j, k) ==
    /\ k \in call[j].ops /\ k \notin call'[j].ops
    /\ CASE k = "sketch" -> Decided(call[j].sketch)
         [] k = "photo" -> Decided(call[j].photo)
         [] k \in {"interp", "design", "render"} ->
                call[j].wf # StageOf(k) \/ Decided(call[j].agRace)
         [] OTHER -> FALSE

\* C10: a decided race keeps its outcome, a settled call keeps its results,
\* and a straggler changes no job and no result.
C10_FirstSettlementWins ==
    [][\A j \in JobIds :
          /\ Decided(call[j].sketch) =>
                 /\ call'[j].sketch = call[j].sketch
                 /\ call'[j].sketchVal = call[j].sketchVal
          /\ Decided(call[j].photo) =>
                 /\ call'[j].photo = call[j].photo
                 /\ call'[j].photoVal = call[j].photoVal
          /\ Decided(call[j].agRace) => call'[j].agRace = call[j].agRace
          /\ call[j].wf = "rejected" => call'[j].wf = "rejected"
          /\ call[j].pc = "done" => call'[j].out = call[j].out
          /\ \A k \in {"sketch", "photo", "interp", "design", "render"} :
                 Straggler(j, k) =>
                     /\ jobs' = jobs
                     /\ call'[j].out = call[j].out
                     /\ call'[j].procRes = call[j].procRes
                     /\ call'[j].textRes = call[j].textRes
                     /\ call'[j].pc = call[j].pc]_vars

\* C10 witness: the sketch analysis answered after its race had timed out
C10_Witness ==
    \E j \in JobIds :
        /\ TimedOut(call[j], "sketch")
        /\ "sketch" \notin call[j].ops
        /\ call[j].pc = "done"

\* the request of the latest step handed its body to the processor
ProcessorRequest == last.op \in {"MULTIMODAL", "STREAM"} /\ last.slot # 0

\* the strategy the selector is to pick for a body
SelectedFor(body) ==
    LET textual == body.text \/ body.speech
        visual == body.sketch \/ body.photo
    IN  CASE textual /\ visual -> "parallel"
          [] textual /\ ~visual -> "textonly"
          [] ~textual /\ visual -> "visualonly"
          [] ~textual /\ ~visual -> "invalid"

\* C11: for every presence combination of text, speech, sketch and photo the
\* selector starts the strategy of the table, and only that one: parallel,
\* text-only or visual-only, and with nothing present no strategy but an
\* error.
C11_StrategySelected ==
    /\ ProcessorRequest =>
           /\ call[last.slot].strat = SelectedFor(last.body)
           /\ call[last.slot].dispatched =
                  IF NoEndpointInput(last.body) THEN 0 ELSE 1
           /\ NoEndpointInput(last.body) =>
                  call[last.slot].procRes.source = "throw"
    /\ \A j \in JobIds : call[j].dispatched <= 1

\* C11 witness: a request with speech and a photo only was given the
\* parallel strategy
C11_Witness ==
    /\ ProcessorRequest
    /\ ~last.body.text /\ last.body.speech
    /\ ~last.body.sketch /\ last.body.photo
    /\ call[last.slot].strat = "parallel"
    /\ call[last.slot].dispatched = 1

\* C12: the selector's no-modality branch is never taken.
C12_NoModalityUnreachable ==
    \A j \in JobIds : call[j].strat # "invalid"

\* agent k's stage of job j ends in this step by a rejection, an error value
\* or its timer
StageFails(j, k) ==
    /\ call[j].wf = StageOf(k)
    /\ call[j].agRace = "pending"
    /\ \/ StageSettles(j, k, "reject")
       \/ StageSettles(j, k, "error")
       \/ \E t \in call[j].timers : t.kind = StageTimer(k) /\ TimerFires(j, t)

\* C13: a stage that times out, rejects or returns an error value aborts the
\* pipeline: the workflow rejects and processDesignRequest returns no result.
C13_StageFailureAborts ==
    [][\A j \in JobIds : \A k \in {"interp", "design", "render"} :
          StageFails(j, k) =>
              /\ call'[j].wf = "rejected"
              /\ call'[j].agRace = "rejected"]_vars

\* C14: after the pipeline aborted the caller has the heuristic analyzer's and
\* synthesizer's model for the prompt.
C14_HeuristicAfterAbort ==
    \A j \in JobIds :
        (call[j].agRace = "rejected" /\ call[j].pc = "done") =>
            call[j].out = [path |-> "fallback", model |-> TextFallbackResult]

\* C15: within one processDesignRequest call each agent is executed at most
\* once.
C15_NoStageRetry ==
    \A j \in JobIds : \A k \in {"interp", "design", "render"} :
        call[j].runs[k] <= 1

\* C15 witness: the designer failed after the interpreter had succeeded; both
\* ran once and the renderer never
C15_Witness ==
    \E j \in JobIds :
        /\ call[j].wf = "rejected"
        /\ call[j].runs = [interp |-> 1, design |-> 1, render |-> 0]

\* C16: while processDesignRequest is unsettled its deadline has not passed,
\* it settles no later than the deadline, and once it has rejected nothing
\* turns the outcome into a success.
C16_OverallDeadline ==
    [][\A j \in JobIds :
          /\ call[j].agRace = "pending" => now <= call[j].agAt + AgentTimeout
          /\ call'[j].agRace = "pending" => now' <= call'[j].agAt + AgentTimeout
          /\ call[j].agRace = "rejected" =>
                 /\ call'[j].agRace = "rejected"
                 /\ call'[j].out = call[j].out
                 /\ call'[j].events = call[j].events]_vars

\* C16 witness: the overall timer rejected the request while the renderer was
\* still awaited, and the workflow resolved afterwards
C16_Witness ==
    \E j \in JobIds :
        /\ call[j].entry = "stream"
        /\ call[j].agRace = "rejected" /\ call[j].wf = "resolved"
        /\ call[j].out = [path |-> "stream_error"]
        /\ now = call[j].agAt + AgentTimeout

\* C17: the agents are called only after the fast strategy has run and has
\* failed or returned a model without rooms.
C17_AgentsOnlyAfterFastPath ==
    \A j \in JobIds :
        call[j].agRace # "none" =>
            /\ call[j].procRes # NotSettled
            /\ \/ call[j].procRes.source = "throw"
               \/ call[j].procRes.rooms = "none"

TerminalEvents(events) ==
    {i \in 1..Len(events) : events[i] \in {"completed", "error"}}

\* C18: every stream gets exactly one terminal event, as its last event, and
\* is then closed.
C18_StreamTerminates ==
    \A j \in JobIds :
        (call[j].entry = "stream") ~>
            /\ call[j].closed
            /\ TerminalEvents(call[j].events) = {Len(call[j].events)}

\* C19: the model of the quick generation path for a prompt is the model the
\* heuristic analyzer and synthesizer produce for that prompt.
C19_QuickEqualsHeuristic ==
    last.op = "QUICK" =>
        \E ties \in SUBSET (1..Len(AnalyzeTextRequirements(synth.prompt).rooms)) :
            last.modelData =
                GenerateModelFromAnalysis(AnalyzeTextRequirements(synth.prompt), ties)

\* the (x, z) footprints of two rooms share interior points
Overlap(r1, r2) ==
    /\ r1.x < r2.x + r2.width /\ r2.x < r1.x + r1.width
    /\ r1.z < r2.z + r2.length /\ r2.z < r1.z + r1.length

\* C20: every room the synthesizer places has strictly positive width,
\* length and height, and no two rooms have overlapping (x, z) footprints,
\* whatever the room types and the size class of the requirement set.
C20_PackerPositiveDisjoint ==
    synth.input # "none" /\ synth.done =>
        LET rooms == synth.modelData.rooms
        IN  /\ Len(rooms) = Len(synth.analysis.rooms)
            /\ \A i \in 1..Len(rooms) :
                   rooms[i].width > 0 /\ rooms[i].length > 0 /\ rooms[i].height > 0
            /\ \A i, k \in 1..Len(rooms) : i # k => ~Overlap(rooms[i], rooms[k])

\* a requirement set with an unlisted type and an unlisted size whose rooms
\* fill more than one row
C20_Witness ==
    /\ synth.input = "analysis" /\ synth.done
    /\ synth.analysis.size = "unlisted"
    /\ \E i, k \in 1..Len(synth.modelData.rooms) :
           /\ synth.analysis.rooms[i].type = "unlisted"
           /\ synth.modelData.rooms[k].z > 0

\* the models a caller has received in this state
ReturnedModels ==
    (IF synth.input # "none" /\ synth.done THEN {synth.modelData} ELSE {})
    \cup (IF last.op \in {"QUICK", "ENHANCED", "STATIC"}
          THEN {last.modelData} ELSE {})

RoomNames(modelData) ==
    {modelData.rooms[i].name : i \in 1..Len(modelData.rooms)}

\* every room name a model refers to is the name of one of its rooms
ReferentiallyClosed(modelData) ==
    LET names == RoomNames(modelData)
    IN  /\ \A i \in 1..Len(modelData.rooms) :
               "connected_to" \in DOMAIN modelData.rooms[i] =>
                   \A k \in 1..Len(modelData.rooms[i].connected_to) :
                       modelData.rooms[i].connected_to[k] \in names
        /\ \A w \in modelData.windows : w.room \in names
        /\ \A d \in 1..Len(modelData.doors) :
               modelData.doors[d].from \in names /\ modelData.doors[d].to \in names

\* C21: every model returned to a caller, by the synthesizer, the visual
\* enrichment, a static fallback or the quick path, is referentially closed.
C21_ReferentiallyClosed ==
    \A modelData \in ReturnedModels : ReferentiallyClosed(modelData)

\* the number of requirement entries of a type
TypeCount(analysis, type) ==
    Cardinality({i \in 1..Len(analysis.rooms) : analysis.rooms[i].type = type})

\* the number of doors between two room names, in either direction
DoorsBetween(modelData, n1, n2) ==
    Cardinality({d \in 1..Len(modelData.doors) :
        \/ modelData.doors[d].from = n1 /\ modelData.doors[d].to = n2
        \/ modelData.doors[d].from = n2 /\ modelData.doors[d].to = n1})

\* "Create a simple 2-bedroom house": a bedroom count of 2, no other room
\* family, no building keyword, no size adjective
TwoBedroomHouse(p) ==
    /\ p.mention["bedroom"] = 2
    /\ \A f \in FamilySet \ {"bedroom"} : p.mention[f] = NotMentioned
    /\ p.keyword = "none" /\ p.size = "medium"

\* C22: for a text with a bedroom count of 2 and no other room, the heuristic
\* path yields 2 bedroom entries plus the default living, kitchen and bathroom
\* rooms, and a model of at least 5 rooms with exactly one door between each
\* pair of consecutive rooms.
C22_TwoBedroomHouse ==
    synth.input = "prompt" /\ synth.done /\ TwoBedroomHouse(synth.prompt) =>
        /\ TypeCount(synth.analysis, "bedroom") = 2
        /\ \A t \in {"living", "kitchen", "bathroom"} : TypeCount(synth.analysis, t) = 1
        /\ Len(synth.modelData.rooms) >= 5
        /\ \A i \in 1..(Len(synth.modelData.rooms) - 1) :
               DoorsBetween(synth.modelData, synth.modelData.rooms[i].name,
                            synth.modelData.rooms[i + 1].name) = 1

\* An invocation that serves a photo-only request: no sketch race was
\* created, and the strategy is the visual-only one.  processCADJob gives
\* every job a text (data.prompt or its default prompt), so a photo-only job
\* runs the text-with-visuals strategy on the default prompt.
PhotoOnly(c) ==
    /\ c.sketch = "none" /\ c.photo # "none"
    /\ c.entry = "job" \/ c.strat = "visualonly"

\* the invocation returned a model made by the heuristic text path
HeuristicOutcome(c) ==
    /\ c.out.path \notin {"error", "stream_error", "rejected"}
    /\ "model" \in DOMAIN c.out
    /\ c.out.model.source = "heuristic"

\* C23: a photo-only request whose photo analysis failed, or gave no rooms,
\* ends without an error (its job completed, not failed) and its result is
\* the heuristic default layout.
C23_PhotoOnlyFallsBack ==
    \A j \in JobIds :
        (PhotoOnly(call[j]) /\ call[j].pc = "done") =>
            /\ HeuristicOutcome(call[j])
            /\ (call[j].entry = "job" /\ j \in DOMAIN jobs) =>
                   jobs[j].status = "completed"

\* C24: a poll of an id that is not in the job store (never issued, or
\* purged) is answered 404, a poll of a stored id is answered with that job's
\* record (status, progress, result, error), and no poll creates or changes
\* a job.
C24_PollReadsOnly ==
    [][\A j \in JobIds :
          (last'.op = "GET" /\ last'.jobId = j) =>
              /\ jobs' = jobs
              /\ IF j \in DOMAIN jobs
                 THEN last'.code = 200 /\ last'.job = jobs[j]
                 ELSE last'.code = 404]_vars

\* C24 witness: the id of a purged job was polled and answered 404, and the
\* store is still empty
C24_Witness ==
    /\ last.op = "GET" /\ last.code = 404
    /\ last.jobId >= 1 /\ last.jobId <= issued
    /\ jobs = <<>>

\* the record job j's own task wrote last
OwnRecord(j) ==
    IF call[j].pc = "awaiting"
    THEN JobRec("generating_model", 70, NoResult, "none", 0)
    ELSE JobRec("completed", 100, call[j].out, "none", 0)

\* C25: jobs are independent under every interleaving of submissions, polls
\* and processing tasks: a stored job's record is the one its own task wrote
\* last, and a step of job a's task leaves every other job's record as it is.
C25_JobsIndependent ==
    /\ [](\A j \in StoreIds :
             /\ j \in DOMAIN jobs <=> call[j].pc \in {"awaiting", "done"}
             /\ j \in DOMAIN jobs => jobs[j] = OwnRecord(j))
    /\ [][\A a, b \in StoreIds :
             (call'[a] # call[a] /\ b # a) =>
                 /\ b \in DOMAIN jobs' <=> b \in DOMAIN jobs
                 /\ b \in DOMAIN jobs => jobs'[b] = jobs[b]]_vars

\* C25 witness: three jobs were submitted; the first is purged, the second
\* completed with the agents' model, the third is still processed
C25_Witness ==
    /\ issued = 3
    /\ call[1].pc = "cleaned" /\ 1 \notin DOMAIN jobs
    /\ call[2].pc = "done" /\ jobs[2].result.path = "agent_orchestrator"
    /\ call[3].pc = "awaiting" /\ jobs[3].status = "generating_model"

\* C26: a user without a Pro subscription never has more than the free limit
\* of generations used, under every interleaving of usage POST requests, and
\* a POST that finds the limit reached is answered 403 and leaves the counter
\* as it is.
C26_FreeLimitHolds ==
    ~usage.isPro =>
        /\ usage.generationsUsed <= FREE_GENERATION_LIMIT
        /\ \A r \in UsageRequests :
               (usage.requests[r].pc = "done" /\ usage.requests[r].seen >= FREE_GENERATION_LIMIT) =>
                   usage.requests[r].code = 403

\* agent k's execute was called in this step of job j
Started(j, k) == call'[j].runs[k] > call[j].runs[k]

\* agent k's execute returned a value in this step, while its stage was
\* awaiting it
Returned(j, k) ==
    /\ call[j].wf = StageOf(k)
    /\ last' = [op |-> "STAGE", slot |-> j, agent |-> k, outcome |-> "result"]
       \/ last' = [op |-> "STAGE", slot |-> j, agent |-> k, outcome |-> "error"]

ReturnedWithoutError(j, k) ==
    /\ call[j].wf = StageOf(k)
    /\ last' = [op |-> "STAGE", slot |-> j, agent |-> k, outcome |-> "result"]

\* C27: the agent pipeline runs Interpreting, Designing, Rendering in that
\* order: the designer is started only when the interpreter returned a result
\* without error, the renderer only when the designer did, and the workflow
\* resolves only when the renderer, the last of the three, has finished.
C27_StagesInOrder ==
    [][\A j \in JobIds :
          /\ Started(j, "interp") => call[j].runs = [interp |-> 0, design |-> 0, render |-> 0]
          /\ Started(j, "design") => ReturnedWithoutError(j, "interp")
          /\ Started(j, "render") => ReturnedWithoutError(j, "design")
          /\ (call'[j].wf = "resolved" /\ call[j].wf # "resolved") =>
                 /\ Returned(j, "render")
                 /\ call[j].runs = [interp |-> 1, design |-> 1, render |-> 1]
          /\ (call'[j].agRace = "fulfilled" /\ call[j].agRace # "fulfilled") =>
                 call'[j].wf = "resolved"]_vars

\* C27 witness: processDesignRequest returned the design after each agent
\* ran once
C27_Witness ==
    \E j \in JobIds :
        /\ call[j].agRace = "fulfilled" /\ call[j].wf = "resolved"
        /\ call[j].runs = [interp |-> 1, design |-> 1, render |-> 1]
        /\ call[j].design = "some"

\* the analyzer appended as many entries of family f as the prompt asks
\* for: the number in front of the room word, or one when there is none.  A
\* number 0 is looked at only when another family gave an entry, so that the
\* default rooms are not in the list.
CountHonoured(p, analysis, f) ==
    LET m == p.mention[f]
        n == TypeCount(analysis, f)
    IN  /\ m >= 1 => n = m
        /\ m = Unnumbered => n = 1
        /\ (m = 0 /\ \E g \in FamilySet \ {f} : p.mention[g] \notin {NotMentioned, 0}) =>
               n = 0

\* C28: for each of the ten room families, a mention with a number N in front
\* gives exactly N entries of that type, a mention without a number exactly 1.
C28_CountPerFamily ==
    (synth.input = "prompt" /\ synth.done) =>
        \A f \in FamilySet : CountHonoured(synth.prompt, synth.analysis, f)

\* the types of a requirement set, in order
Types(analysis) == [i \in 1..Len(analysis.rooms) |-> analysis.rooms[i].type]

\* the prompt has a commercial keyword and no number in front of a room word
CommercialNoCounts(p) ==
    /\ p.keyword = "commercial"
    /\ \A f \in FamilySet : p.mention[f] \in {NotMentioned, Unnumbered}

\* C29: the analyzer returns a requirement set with at least one room for
\* every text; when no room was extracted the set is the default one of the
\* building type; a text with a commercial keyword and no explicit count
\* yields the office, meeting, reception set.
C29_AnalyzerDefaults ==
    (synth.input = "prompt" /\ synth.done) =>
        /\ Len(synth.analysis.rooms) >= 1
        /\ Len(ExtractRooms(synth.prompt, 1)) = 0 =>
               Types(synth.analysis) =
                   IF synth.prompt.keyword = "commercial"
                   THEN <<"office", "meeting", "reception">>
                   ELSE <<"living", "kitchen", "bedroom", "bathroom">>
        /\ CommercialNoCounts(synth.prompt) =>
               Types(synth.analysis) = <<"office", "meeting", "reception">>

\* the names in a room's connected_to list
ConnectedTo(room) == {room.connected_to[k] : k \in 1..Len(room.connected_to)}

\* C30: for a requirement set of n rooms the synthesizer emits n-1 doors, one
\* between each room and its predecessor in requirement order and none
\* between other pairs, and connected_to is symmetric: room i lists room i-1
\* and room i-1 lists room i.
C30_DoorsFollowOrder ==
    (synth.input # "none" /\ synth.done) =>
        LET rooms == synth.modelData.rooms
            n == Len(synth.analysis.rooms)
        IN  /\ Len(rooms) = n
            /\ Len(synth.modelData.doors) = (IF n = 0 THEN 0 ELSE n - 1)
            /\ \A i, k \in 1..n :
                   i < k => DoorsBetween(synth.modelData, rooms[i].name, rooms[k].name)
                                = (IF k = i + 1 THEN 1 ELSE 0)
            /\ \A i \in 2..n :
                   /\ rooms[i - 1].name \in ConnectedTo(rooms[i])
                   /\ rooms[i].name \in ConnectedTo(rooms[i - 1])
            /\ \A i, k \in 1..n :
                   rooms[k].name \in ConnectedTo(rooms[i]) => (k = i - 1 \/ k = i + 1)

\* C30 witness: a requirement set of four rooms of one type was synthesized
C30_Witness ==
    /\ synth.input = "analysis" /\ synth.done
    /\ Len(synth.modelData.rooms) = 4
    /\ Len(synth.modelData.doors) = 3
    /\ \A i \in 1..4 : synth.analysis.rooms[i].type = "bedroom"

\* the largest length among the rooms before room i that lie in the row of
\* room i-1 (the rows are told apart by their z)
RowMax(rooms, i) ==
    LET row == {k \in 1..(i - 1) : rooms[k].z = rooms[i - 1].z}
    IN  CHOOSE m \in {rooms[k].length : k \in row} :
            \A k \in row : rooms[k].length <= m

\* C31: every room the grid packer places lies within the row span, x >= 0
\* and x + width <= 15; each room either continues the row of the room before
\* it or starts a row at x = 0 whose z is the z of the finished row plus that
\* row's largest length plus the 0.5 spacing, so z never decreases along the
\* room order.
C31_WithinRowSpan ==
    (synth.input # "none" /\ synth.done) =>
        LET rooms == synth.modelData.rooms
        IN  /\ \A i \in 1..Len(rooms) :
                   rooms[i].x >= 0 /\ rooms[i].x + rooms[i].width <= MaxRowWidth
            /\ Len(rooms) >= 1 => rooms[1].x = 0 /\ rooms[1].z = 0
            /\ \A i \in 2..Len(rooms) :
                   \/ /\ rooms[i].x = rooms[i - 1].x + rooms[i - 1].width + Spacing
                      /\ rooms[i].z = rooms[i - 1].z
                   \/ /\ rooms[i].x = 0
                      /\ rooms[i].z = rooms[i - 1].z + RowMax(rooms, i) + Spacing
            /\ \A i \in 2..Len(rooms) : rooms[i].z >= rooms[i - 1].z

\* C31 witness: a row of two rooms of different lengths was finished by a
\* wrap, and the row after it holds two rooms again
C31_Witness ==
    /\ synth.input = "analysis" /\ synth.done
    /\ Len(synth.modelData.rooms) = 4
    /\ LET rooms == synth.modelData.rooms
       IN  /\ rooms[2].z = rooms[1].z /\ rooms[2].length < rooms[1].length
           /\ rooms[3].x = 0 /\ rooms[3].z = rooms[1].length + Spacing
           /\ rooms[4].z = rooms[3].z /\ rooms[4].x > 0

\* C32: in the parallel strategy the text-derived rooms are replaced by the
\* visual rooms only when the visual analysis carries a non-empty room list;
\* with an empty or absent list the text-derived rooms are kept, so the
\* enriched model of a text model with rooms has rooms.
C32_EnrichmentKeepsRooms ==
    last.op = "ENHANCED" =>
        /\ last.modelData.rooms # synth.modelData.rooms =>
               (last.sketchData.hasRooms /\ Len(last.sketchData.rooms) > 0)
        /\ (~last.sketchData.hasRooms \/ Len(last.sketchData.rooms) = 0) =>
               last.modelData.rooms = synth.modelData.rooms
        /\ Len(synth.modelData.rooms) > 0 => Len(last.modelData.rooms) > 0

\* C33: a job submitted with only visual modalities (a sketch and/or a
\* photo, neither text nor speech) is processed by the visual-only strategy,
\* not by the text-only or the parallel one.
C33_VisualJobRunsVisualOnly ==
    (/\ last.op = "POST" /\ last.code = 200
     /\ ~last.body.prompt /\ ~last.body.speechData
     /\ last.body.sketchData \/ last.body.photoData) =>
        call[last.jobId].strat = "visualonly"

\* the position of a status in the lifecycle
StatusRank(status) ==
    CASE status = "queued" -> 1
      [] status = "processing" -> 2
      [] status = "analyzing_inputs" -> 3
      [] status = "generating_model" -> 4
      [] status \in {"completed", "failed"} -> 5
      [] OTHER -> 0

\* C34: a job's stored status only moves forward along queued -> processing
\* -> analyzing_inputs -> generating_model -> (completed | failed).  A job is
\* created in queued with progress 0, the records written while it is
\* submitted follow the order, every later write moves it forward, and a
\* terminal status is never replaced by another status.
C34_StatusMovesForward ==
    [][\A j \in JobIds :
          /\ (j \notin DOMAIN jobs /\ j \in DOMAIN jobs') =>
                 /\ last'.op = "POST" /\ last'.jobId = j
                 /\ last'.written[1].status = "queued"
                 /\ last'.written[1].progress = 0
                 /\ \A i \in 1..(Len(last'.written) - 1) :
                        StatusRank(last'.written[i + 1].status)
                            = StatusRank(last'.written[i].status) + 1
                 /\ StatusRank(jobs'[j].status)
                        >= StatusRank(last'.written[Len(last'.written)].status)
          /\ (j \in DOMAIN jobs /\ j \in DOMAIN jobs') =>
                 /\ StatusRank(jobs[j].status) >= 1
                 /\ StatusRank(jobs'[j].status) >= StatusRank(jobs[j].status)
                 /\ StatusRank(jobs[j].status) = 5 =>
                        jobs'[j].status = jobs[j].status
      ]_vars

\* C34 witness: a job that stayed in generating_model while time passed is
\* now completed with the processor's own result
C34_Witness ==
    \E j \in DOMAIN jobs :
        /\ jobs[j].status = "completed" /\ jobs[j].progress = 100
        /\ now > jobs[j].startTime
        /\ jobs[j].result.path # "fallback"

\* C36: the writes queued -> processing -> analyzing_inputs ->
\* generating_model all happen before the submission handler returns, so the
\* store never holds a job in queued, processing or analyzing_inputs when a
\* poll can run: every poll that finds the job returns generating_model,
\* completed or failed, while the submission response reports queued.
C36_PollNeverSeesEarlyStatus ==
    /\ \A j \in DOMAIN jobs :
           jobs[j].status \in {"generating_model", "completed", "failed"}
    /\ (last.op = "GET" /\ last.code = 200) =>
           last.job.status \in {"generating_model", "completed", "failed"}
    /\ (last.op = "POST" /\ last.code = 200) =>
           /\ last.status = "queued"
           /\ last.written[1].status = "queued"
           /\ jobs[last.jobId].status # "queued"

\* C36 witness: the first poll after the submission, with no time passed,
\* finds the job in generating_model
C36_Witness ==
    /\ last.op = "GET" /\ last.code = 200
    /\ last.job.status = "generating_model"
    /\ now = last.job.startTime
    /\ polled[last.jobId].prev = NoPoll

\* C35: retryWithBackoff(fn, maxRetries, baseDelay) calls fn at most
\* maxRetries+1 times, makes no call after the first success and returns that
\* call's value, waits baseDelay*2^k before the retry that follows failed
\* attempt k (k from 0), and when every attempt failed throws the error of
\* the last attempt without waiting again.
C35_RetryWithBackoff ==
    retry.pc # "none" =>
        LET done == Len(retry.settled)
            failed == {k \in 1..done : retry.settled[k] = "rejected"}
        IN  /\ retry.calls <= retry.maxRetries + 1
            /\ retry.calls \in {done, done + 1}
            /\ \A k \in 1..done :
                   retry.settled[k] = "resolved" =>
                       /\ k = done /\ retry.calls = k
                       /\ retry.pc = "returned"
                       /\ retry.outcome = [kind |-> "value", of |-> k]
            /\ retry.pc = "returned" => retry.settled[done] = "resolved"
            /\ \A k \in 1..Len(retry.waits) :
                   retry.waits[k] = retry.baseDelay * Pow2(k - 1)
            /\ retry.pc \in {"fn", "delay", "returned"} =>
                   Len(retry.waits) = Cardinality(failed)
            /\ (retry.pc = "threw" /\ retry.calls > 0) =>
                   /\ failed = 1..done
                   /\ done = retry.maxRetries + 1
                   /\ retry.outcome = [kind |-> "error", of |-> done]
                   /\ Len(retry.waits) = done - 1

\* C35 witness: with maxRetries 3 every attempt failed, the call waited
\* three times and threw the fourth error
C35_Witness ==
    /\ retry.pc = "threw"
    /\ retry.maxRetries = 3 /\ retry.baseDelay = 250
    /\ retry.calls = 4
    /\ retry.waits = <<250, 500, 1000>>

\* C37: after cancelJob() or resetJob() the hook's job is idle and stays idle
\* until startJob is called again, whatever poll response or submission
\* response was still in flight at the cancel.
C37_CancelledStaysIdle ==
    (hook.pc = "mounted" /\ hook.stoppedBy # "none") => hook.job.status = "idle"

\* C38: for one job the CADJobStatus component invokes onComplete at most
\* once and onError at most once, and never both, whatever the latency of
\* the poll responses against the 2-second timer.
C38_CallbacksAtMostOnce ==
    widget.pc = "mounted" =>
        /\ widget.completes <= 1
        /\ widget.errors <= 1
        /\ ~(widget.completes >= 1 /\ widget.errors >= 1)

\* what holds of a call of processWithRetry at every moment: at most one
\* callback, none before the call ended, one once it ended; at most
\* maxRetries+1 attempts, each with at most one chunked request after its
\* streaming; at most one fallback request, made after the last attempt
CallbacksBounded ==
    resilient.pc # "none" =>
        /\ resilient.results + resilient.errors <= 1
        /\ resilient.pc = "ended" <=> resilient.results + resilient.errors = 1
        /\ resilient.attempts <= resilient.maxRetries + 1
        /\ resilient.chunks <= resilient.attempts
        /\ resilient.fallbacks <= 1
        /\ resilient.fallbacks = 1 =>
               /\ resilient.attempts = resilient.maxRetries + 1
               /\ resilient.chunks = resilient.attempts
        /\ resilient.errors = 1 => resilient.fallbacks = 1

\* C39: each call of processWithRetry ends with exactly one callback
\* invocation, onResult once or onError once, after at most maxRetries+1
\* attempts (streaming first, chunked processing if streaming gave no result)
\* followed by at most one lightweight fallback request.
C39_EndsWithOneCallback ==
    /\ []CallbacksBounded
    /\ <>(resilient.pc = "ended" /\ resilient.results + resilient.errors = 1)

====
